---- MODULE Spec2Model ----
(***************************************************************************)
(* Meeting-room reservation service: the reservation store, the room       *)
(* catalog and the operations of ReservationService, modelled from         *)
(* src/reservation_service.py, src/models.py and src/timezone_utils.py;     *)
(* the chat history of src/ai_service.py and src/redis_service.py.          *)
(*                                                                         *)
(* Text is a sequence of one-character strings, so that strptime is        *)
(* modelled by what it does to the characters.  The store is the default   *)
(* SQLite database of models.py: foreign keys are not enforced, and an     *)
(* INTEGER PRIMARY KEY without the AUTOINCREMENT keyword gets              *)
(* max(rowid) + 1 on insert.                                               *)
(***************************************************************************)
EXTENDS Integers, Sequences, FiniteSets, TLC

VARIABLES rooms, reservations, last, proc, chat_history

vars == <<rooms, reservations, last, proc, chat_history>>

\* ------------------------------------------------------------------ bounds

\* at most this many reservations are stored at once
MaxReservations == 2
\* reservation ids stay at or below this
MaxId == 2
\* room ids stay at or below this
MaxRoomId == 4
\* a new chat message is taken while the history is shorter than this
MaxHistory == 4

\* ------------------------------------------------------- program constants

STARTHOUR == 7
ENDHOUR == 22

\* Python's None
NoneVal == "None"

\* the fixed zone of timezone_utils.JST
JST == "JST"

\* ------------------------------------------------------------------- text

Digits == {"0", "1", "2", "3", "4", "5", "6", "7", "8", "9"}

DigitVal(c) ==
    CASE c = "0" -> 0 [] c = "1" -> 1 [] c = "2" -> 2 [] c = "3" -> 3
      [] c = "4" -> 4 [] c = "5" -> 5 [] c = "6" -> 6 [] c = "7" -> 7
      [] c = "8" -> 8 [] c = "9" -> 9

IsDigitAt(s, i) == i >= 1 /\ i <= Len(s) /\ s[i] \in Digits

IsCharAt(s, i, c) == i >= 1 /\ i <= Len(s) /\ s[i] = c

NoMatch == [ok |-> FALSE, val |-> 0, next |-> 0]

\* one or two digits at position i; two are taken when two(d1, d2) accepts
\* them, else one when one(d1) accepts it (the alternatives of the
\* directive's regular expression, in their order)
TwoDigits(s, i) == 10 * DigitVal(s[i]) + DigitVal(s[i + 1])

\* %H : 2[0-3]|[0-1]\d|\d
MatchH(s, i) ==
    IF IsDigitAt(s, i) /\ IsDigitAt(s, i + 1)
       /\ ((s[i] = "2" /\ s[i + 1] \in {"0", "1", "2", "3"}) \/ s[i] \in {"0", "1"})
    THEN [ok |-> TRUE, val |-> TwoDigits(s, i), next |-> i + 2]
    ELSE IF IsDigitAt(s, i)
         THEN [ok |-> TRUE, val |-> DigitVal(s[i]), next |-> i + 1]
         ELSE NoMatch

\* %M : [0-5]\d|\d
MatchM(s, i) ==
    IF IsDigitAt(s, i) /\ IsDigitAt(s, i + 1) /\ s[i] \in {"0", "1", "2", "3", "4", "5"}
    THEN [ok |-> TRUE, val |-> TwoDigits(s, i), next |-> i + 2]
    ELSE IF IsDigitAt(s, i)
         THEN [ok |-> TRUE, val |-> DigitVal(s[i]), next |-> i + 1]
         ELSE NoMatch

\* %Y : \d\d\d\d
MatchY(s, i) ==
    IF IsDigitAt(s, i) /\ IsDigitAt(s, i + 1) /\ IsDigitAt(s, i + 2) /\ IsDigitAt(s, i + 3)
    THEN [ok |-> TRUE,
          val |-> 1000 * DigitVal(s[i]) + 100 * DigitVal(s[i + 1])
                  + 10 * DigitVal(s[i + 2]) + DigitVal(s[i + 3]),
          next |-> i + 4]
    ELSE NoMatch

\* %m : 1[0-2]|0[1-9]|[1-9]
MatchMonth(s, i) ==
    IF IsDigitAt(s, i) /\ IsDigitAt(s, i + 1)
       /\ ((s[i] = "1" /\ s[i + 1] \in {"0", "1", "2"}) \/ (s[i] = "0" /\ s[i + 1] # "0"))
    THEN [ok |-> TRUE, val |-> TwoDigits(s, i), next |-> i + 2]
    ELSE IF IsDigitAt(s, i) /\ s[i] # "0"
         THEN [ok |-> TRUE, val |-> DigitVal(s[i]), next |-> i + 1]
         ELSE NoMatch

\* %d : 3[01]|[12]\d|0[1-9]|[1-9]| [1-9]
MatchDay(s, i) ==
    IF IsDigitAt(s, i) /\ IsDigitAt(s, i + 1)
       /\ ((s[i] = "3" /\ s[i + 1] \in {"0", "1"}) \/ s[i] \in {"1", "2"}
           \/ (s[i] = "0" /\ s[i + 1] # "0"))
    THEN [ok |-> TRUE, val |-> TwoDigits(s, i), next |-> i + 2]
    ELSE IF IsDigitAt(s, i) /\ s[i] # "0"
         THEN [ok |-> TRUE, val |-> DigitVal(s[i]), next |-> i + 1]
         ELSE IF IsCharAt(s, i, " ") /\ IsDigitAt(s, i + 1) /\ s[i + 1] # "0"
              THEN [ok |-> TRUE, val |-> DigitVal(s[i + 1]), next |-> i + 2]
              ELSE NoMatch

\* \s+ : the position after the run of spaces that starts at i (i itself
\* when there is none)
RECURSIVE SkipSpaces(_, _)
SkipSpaces(s, i) == IF IsCharAt(s, i, " ") THEN SkipSpaces(s, i + 1) ELSE i

\* ------------------------------------------------------------- date, time

IsLeap(y) == (y % 4 = 0 /\ y % 100 # 0) \/ y % 400 = 0

DaysInMonth(y, m) ==
    IF m = 2 THEN (IF IsLeap(y) THEN 29 ELSE 28)
    ELSE IF m \in {4, 6, 9, 11} THEN 30 ELSE 31

\* datetime.time(hour, minute) values compare by (hour, minute)
TimeOfDay(h, m) == 60 * h + m

\* raised ValueError of strptime
ParseFail == [ok |-> FALSE]

\* the end of "%H:%M": the minute m must end the text
TimeFromMinute(s, h, m) ==
    IF ~m.ok \/ m.next # Len(s) + 1 THEN ParseFail
    ELSE [ok |-> TRUE, hour |-> h.val, minute |-> m.val]

\* after the hour h of "%H:%M": the colon, then %M
TimeFromHour(s, h) ==
    IF ~h.ok \/ ~IsCharAt(s, h.next, ":") THEN ParseFail
    ELSE TimeFromMinute(s, h, MatchM(s, h.next + 1))

\* "%H:%M" from position i to the end of the text
TimeAt(s, i) == TimeFromHour(s, MatchH(s, i))

\* datetime.strptime(s, "%H:%M").time()
strptime_HM(s) == TimeAt(s, 1)

\* the datetime of the matched fields; datetime() raises ValueError for
\* year 0 and for a day the month does not have
MakeDatetime(y, mo, d, t) ==
    IF ~t.ok THEN ParseFail
    ELSE IF y.val < 1 \/ d.val > DaysInMonth(y.val, mo.val) THEN ParseFail
    ELSE [ok |-> TRUE,
          dt |-> [year |-> y.val, month |-> mo.val, day |-> d.val,
                  hour |-> t.hour, minute |-> t.minute, tzinfo |-> NoneVal]]

\* after the day d: the space of the format, then "%H:%M"
DatetimeFromDay(s, y, mo, d) ==
    IF ~d.ok \/ ~IsCharAt(s, d.next, " ") THEN ParseFail
    ELSE MakeDatetime(y, mo, d, TimeAt(s, SkipSpaces(s, d.next)))

\* after the month mo: the dash, then %d
DatetimeFromMonth(s, y, mo) ==
    IF ~mo.ok \/ ~IsCharAt(s, mo.next, "-") THEN ParseFail
    ELSE DatetimeFromDay(s, y, mo, MatchDay(s, mo.next + 1))

\* after the year y: the dash, then %m
DatetimeFromYear(s, y) ==
    IF ~y.ok \/ ~IsCharAt(s, y.next, "-") THEN ParseFail
    ELSE DatetimeFromMonth(s, y, MatchMonth(s, y.next + 1))

\* datetime.strptime(s, "%Y-%m-%d %H:%M")
strptime_YmdHM(s) == DatetimeFromYear(s, MatchY(s, 1))

\* .replace(tzinfo=JST) of a parsed datetime
ReplaceTzinfo(r) ==
    IF r.ok THEN [ok |-> TRUE, dt |-> [r.dt EXCEPT !.tzinfo = JST]] ELSE ParseFail

\* f"{date_str} {time_str}" parsed, then .replace(tzinfo=JST)
parse_datetime_jst(date_str, time_str) ==
    ReplaceTzinfo(strptime_YmdHM(date_str \o <<" ">> \o time_str))

\* the order of two datetimes of one zone, and of the DateTime column's
\* stored values: by year, month, day, hour, minute
DtKey(dt) == (((dt.year * 12 + (dt.month - 1)) * 31 + (dt.day - 1)) * 24 + dt.hour) * 60 + dt.minute

DtLt(a, b) == DtKey(a) < DtKey(b)

\* what the DateTime column keeps of a datetime: its fields, not its zone
ToColumn(dt) == [dt EXCEPT !.tzinfo = NoneVal]

\* the day after the day of dt, at the time of dt
NextDay(dt) ==
    IF dt.day < DaysInMonth(dt.year, dt.month) THEN [dt EXCEPT !.day = dt.day + 1]
    ELSE IF dt.month < 12 THEN [dt EXCEPT !.month = dt.month + 1, !.day = 1]
    ELSE [dt EXCEPT !.year = dt.year + 1, !.month = 1, !.day = 1]

\* dt + timedelta(days=n), n >= 0
RECURSIVE PlusDays(_, _)
PlusDays(dt, n) == IF n = 0 THEN dt ELSE PlusDays(NextDay(dt), n - 1)

\* the datetime total minutes after the midnight that begins the day of dt
AtMinuteOfDay(dt, total) ==
    PlusDays([dt EXCEPT !.hour = (total % 1440) \div 60, !.minute = total % 60],
             total \div 1440)

\* dt + timedelta(minutes=n), n >= 0
PlusMinutes(dt, n) == AtMinuteOfDay(dt, TimeOfDay(dt.hour, dt.minute) + n)

DigitChar(n) == CHOOSE c \in Digits : DigitVal(c) = n

\* two digits, zero-padded: %H, %M, %m, %d of strftime
Pad2(n) == <<DigitChar(n \div 10), DigitChar(n % 10)>>

\* %Y of strftime for the years 1000 to 9999
Year4(y) == Pad2(y \div 100) \o Pad2(y % 100)

\* a datetime read from the DateTime column is naive and is taken as JST
convert_to_jst(dt) == IF dt.tzinfo = NoneVal THEN [dt EXCEPT !.tzinfo = JST] ELSE dt

\* dt.strftime("%H:%M")
format_jst_time(dt) == Pad2(dt.hour) \o <<":">> \o Pad2(dt.minute)

\* dt.strftime("%Y-%m-%d")
format_jst_date(dt) == Year4(dt.year) \o <<"-">> \o Pad2(dt.month) \o <<"-">> \o Pad2(dt.day)

\* --------------------------------------------------------- error messages

\* "必須項目が不足しています"
ErrMissing == "missing_fields"
\* "7時から22時の間で予約してください"
ErrHours == "out_of_hours"
\* "終了時刻は開始時刻より後に設定してください"
ErrOrdering == "end_not_after_start"
\* "日時の形式が正しくありません"
ErrFormat == "bad_datetime_format"
\* "指定された時間帯は既に予約されています"
ErrConflict == "already_reserved"
\* "予約が見つかりません"
ErrNotFound == "reservation_not_found"

\* "サーバーエラーが発生しました: ..." of the except Exception branches
ErrServer == "server_error"

\* "日付の形式が正しくありません"
ErrDateFormat == "bad_date_format"

\* "利用時間は0分より大きくなければなりません"
ErrDuration == "duration_not_positive"

\* "開始日時の形式が正しくありません"
ErrStartFormat == "bad_start_datetime_format"

\* "開始時刻もしくは終了時刻が業務時間外です"
ErrFindHours == "start_or_end_out_of_hours"

\* TypeError: get_reservations_by_username() takes 1 positional argument but
\* 2 were given
ErrTypeError == "TypeError"

\* "他のユーザーの予約はキャンセルできません"
ErrNotOwner == "reservation_of_another_user"

Failure(e) == [success |-> FALSE, error |-> e]

\* ------------------------------------------------------------- validation

\* Python truthiness of a str argument (None and "" are both falsy; an
\* absent str is the empty text here) and of the int room_id (None and 0
\* are both falsy; an absent room_id is 0 here)
TruthyText(s) == Len(s) > 0

TruthyInt(n) == n # 0

Invalid(e) == [raised |-> FALSE, valid |-> FALSE, error |-> e]

Valid == [raised |-> FALSE, valid |-> TRUE]

\* strptime raised ValueError inside the validation
RaisedValueError == [raised |-> TRUE, valid |-> FALSE]

\* all([room_id, date, start_time, end_time])
AllPresent(room_id, date, start_time, end_time) ==
    TruthyInt(room_id) /\ TruthyText(date) /\ TruthyText(start_time) /\ TruthyText(end_time)

\* the hours check without its test of the end time
OutsideHours_StartOnly(st, et) ==
    TimeOfDay(st.hour, st.minute) < TimeOfDay(STARTHOUR, 0)

\* the hours check with "and" where the code has "or"
OutsideHours_BothNeeded(st, et) ==
    /\ TimeOfDay(st.hour, st.minute) < TimeOfDay(STARTHOUR, 0)
    /\ TimeOfDay(et.hour, et.minute) > TimeOfDay(ENDHOUR, 0)

\* start_time < earliest or end_time > latest
OutsideHours(st, et) ==
    \/ TimeOfDay(st.hour, st.minute) < TimeOfDay(STARTHOUR, 0)
    \/ TimeOfDay(et.hour, et.minute) > TimeOfDay(ENDHOUR, 0)

\* the ordering check with ">" where the code has ">="
NotBefore_Strict(st, et) == TimeOfDay(st.hour, st.minute) > TimeOfDay(et.hour, et.minute)

\* start_time >= end_time
NotBefore(st, et) == TimeOfDay(st.hour, st.minute) >= TimeOfDay(et.hour, et.minute)

\* the two checks on the parsed times, the ordering check first
ChecksOnTimes_OrderingFirst(st, et) ==
    IF ~st.ok \/ ~et.ok THEN RaisedValueError
    ELSE IF NotBefore(st, et) THEN Invalid(ErrOrdering)
    ELSE IF OutsideHours(st, et) THEN Invalid(ErrHours)
    ELSE Valid

\* lines 257-270: strptime raised, or the hours check, then the ordering check
ChecksOnTimes(st, et) ==
    IF ~st.ok \/ ~et.ok THEN RaisedValueError
    ELSE IF OutsideHours(st, et) THEN Invalid(ErrHours)
    ELSE IF NotBefore(st, et) THEN Invalid(ErrOrdering)
    ELSE Valid

\* the validation with the ordering check moved before the hours check
validate_ordering_first(room_id, date, start_time, end_time) ==
    IF ~AllPresent(room_id, date, start_time, end_time)
    THEN Invalid(ErrMissing)
    ELSE ChecksOnTimes_OrderingFirst(strptime_HM(start_time), strptime_HM(end_time))

_validate_reservation_data(room_id, date, start_time, end_time) ==
    IF ~AllPresent(room_id, date, start_time, end_time)
    THEN Invalid(ErrMissing)
    ELSE ChecksOnTimes(strptime_HM(start_time), strptime_HM(end_time))

\* ------------------------------------------------------------------ store

\* the overlap test that looks only for rows starting inside the new interval
ConflictRows_StartInside(store, room_id, new_start_time, new_end_time) ==
    {r \in store : /\ r.room_id = room_id
                   /\ ~DtLt(r.start_time, new_start_time)
                   /\ DtLt(r.start_time, new_end_time)}

\* the overlap test without the room_id condition
ConflictRows_AnyRoom(store, room_id, new_start_time, new_end_time) ==
    {r \in store : /\ DtLt(r.start_time, new_end_time)
                   /\ DtLt(new_start_time, r.end_time)}

\* the overlap test with <= and >= where the code has < and >
ConflictRows_Closed(store, room_id, new_start_time, new_end_time) ==
    {r \in store : /\ r.room_id = room_id
                   /\ ~DtLt(new_end_time, r.start_time)
                   /\ ~DtLt(r.end_time, new_start_time)}

\* the SELECT of _check_conflict: the rows of the room that overlap
\* [new_start_time, new_end_time)
ConflictRows(store, room_id, new_start_time, new_end_time) ==
    {r \in store : /\ r.room_id = room_id
                   /\ DtLt(r.start_time, new_end_time)
                   /\ DtLt(new_start_time, r.end_time)}

_check_conflict(store, room_id, new_start_time, new_end_time) ==
    ConflictRows(store, room_id, new_start_time, new_end_time) # {}

MaxOf(S) == CHOOSE x \in S : \A y \in S : y <= x

\* the rowid SQLite gives an inserted row of a table whose rows have ids S
NextRowId(S) == IF S = {} THEN 1 ELSE MaxOf(S) + 1

\* Reservation(room_id=..., user_name=..., start_time=..., end_time=...),
\* session.add, session.commit
InsertReservation(store, room_id, user_name, start_datetime, end_datetime) ==
    store \cup {[id |-> NextRowId({r.id : r \in store}),
                 room_id |-> room_id,
                 user_name |-> user_name,
                 start_time |-> ToColumn(start_datetime),
                 end_time |-> ToColumn(end_datetime)]}

\* session.get(models.Room, room_id), and room.name if room else "Unknown"
RoomName(cat, room_id) ==
    IF \E r \in cat : r.id = room_id
    THEN (CHOOSE r \in cat : r.id = room_id).name
    ELSE "Unknown"

\* lines 42-43: both conversions, or the ValueError of either
Converted(s, e) ==
    IF ~s.ok \/ ~e.ok THEN [ok |-> FALSE, result |-> Failure(ErrFormat)]
    ELSE [ok |-> TRUE, start_datetime |-> s.dt, end_datetime |-> e.dt]

\* a create without its except ValueError branch: the ValueError that
\* strptime raises inside the validation leaves the function
AfterValidation_Escaping(v, date, start_time, end_time) ==
    IF v.raised THEN [ok |-> FALSE, result |-> [raised |-> TRUE, error |-> ErrFormat]]
    ELSE IF ~v.valid THEN [ok |-> FALSE, result |-> Failure(v.error)]
    ELSE Converted(parse_datetime_jst(date, start_time), parse_datetime_jst(date, end_time))

\* lines 38-43 and 76-77, given the outcome v of the validation
AfterValidation(v, date, start_time, end_time) ==
    IF v.raised THEN [ok |-> FALSE, result |-> Failure(ErrFormat)]
    ELSE IF ~v.valid THEN [ok |-> FALSE, result |-> Failure(v.error)]
    ELSE Converted(parse_datetime_jst(date, start_time), parse_datetime_jst(date, end_time))

\* lines 33-43 of create_reservation: validation and conversion, before the
\* session is opened
PrepareCreate(room_id, date, start_time, end_time) ==
    AfterValidation(_validate_reservation_data(room_id, date, start_time, end_time),
                    date, start_time, end_time)

CreateSuccess(store, cat, room_id) ==
    [success |-> TRUE,
     id |-> MaxOf({r.id : r \in store}),
     room_name |-> RoomName(cat, room_id)]

\* lines 50-74: the store with the new row, and the success result
Inserted(st, cat, room_id) ==
    [store |-> st, result |-> CreateSuccess(st, cat, room_id)]

\* a create that stores the row of a request it turns down for a conflict
CheckAndInsert_KeepingRefused(store, cat, room_id, user_name, p) ==
    IF ~p.ok THEN [store |-> store, result |-> p.result]
    ELSE IF _check_conflict(store, room_id, p.start_datetime, p.end_datetime)
         THEN [store |-> InsertReservation(store, room_id, user_name,
                                           p.start_datetime, p.end_datetime),
               result |-> Failure(ErrConflict)]
         ELSE Inserted(InsertReservation(store, room_id, user_name,
                                         p.start_datetime, p.end_datetime),
                       cat, room_id)

\* lines 46-74, given the prepared request p
CheckAndInsert(store, cat, room_id, user_name, p) ==
    IF ~p.ok THEN [store |-> store, result |-> p.result]
    ELSE IF _check_conflict(store, room_id, p.start_datetime, p.end_datetime)
         THEN [store |-> store, result |-> Failure(ErrConflict)]
         ELSE Inserted(InsertReservation(store, room_id, user_name,
                                         p.start_datetime, p.end_datetime),
                       cat, room_id)

\* create_reservation run alone: the store and the result it leaves
create_reservation(store, cat, room_id, user_name, date, start_time, end_time) ==
    CheckAndInsert(store, cat, room_id, user_name,
                   PrepareCreate(room_id, date, start_time, end_time))

\* a cancel that deletes every reservation of the room of the one it is given
cancel_reservation_WholeRoom(store, reservation_id) ==
    IF ~\E r \in store : r.id = reservation_id
    THEN [store |-> store, result |-> Failure(ErrNotFound)]
    ELSE [store |-> {r \in store :
                        \A t \in store : t.id = reservation_id => r.room_id # t.room_id},
          result |-> [success |-> TRUE, reservation_id |-> reservation_id]]

\* cancel_reservation run alone
cancel_reservation(store, reservation_id) ==
    IF ~\E r \in store : r.id = reservation_id
    THEN [store |-> store, result |-> Failure(ErrNotFound)]
    ELSE [store |-> {r \in store : r.id # reservation_id},
          result |-> [success |-> TRUE, reservation_id |-> reservation_id]]

\* the cancel of services/reservation_service.py with no check of the user
services_cancel_reservation_AnyUser(store, reservation_id, user_name) ==
    IF ~\E r \in store : r.id = reservation_id
    THEN [store |-> store, result |-> Failure(ErrNotFound)]
    ELSE [store |-> {r \in store : r.id # reservation_id},
          result |-> [success |-> TRUE, reservation_id |-> reservation_id]]

\* cancel_reservation(reservation_id, user_name) of
\* services/reservation_service.py, run alone
services_cancel_reservation(store, reservation_id, user_name) ==
    IF ~\E r \in store : r.id = reservation_id
    THEN [store |-> store, result |-> Failure(ErrNotFound)]
    ELSE IF \E r \in store : r.id = reservation_id /\ r.user_name # user_name
         THEN [store |-> store, result |-> Failure(ErrNotOwner)]
         ELSE [store |-> {r \in store : r.id # reservation_id},
               result |-> [success |-> TRUE, reservation_id |-> reservation_id]]

\* session.add_all(to_add_rooms): the rooms get rowids in the order of the
\* configuration
RECURSIVE AddRooms(_, _)
AddRooms(cat, to_add) ==
    IF to_add = <<>> THEN cat
    ELSE AddRooms(cat \cup {[id |-> NextRowId({r.id : r \in cat}),
                             name |-> Head(to_add).name,
                             capacity |-> Head(to_add).capacity]},
                  Tail(to_add))

\* an init_db that empties the reservations table when it deletes a room
init_db_ClearingAll(cat, store, cfg) ==
    LET names_db == {r.name : r \in cat}
        to_add_rooms == SelectSeq(cfg, LAMBDA c : c.name \notin names_db)
        names_cfg == {cfg[i].name : i \in DOMAIN cfg}
        to_delete_rooms == {r \in cat : r.name \notin names_cfg}
    IN [rooms |-> AddRooms(cat, to_add_rooms) \ to_delete_rooms,
        reservations |-> IF to_delete_rooms = {} THEN store ELSE {}]

\* init_db with ROOMS_CONFIG = cfg: rooms of cfg that the table lacks are
\* added, rooms the cfg lacks are deleted with their reservations
init_db(cat, store, cfg) ==
    LET names_db == {r.name : r \in cat}
        to_add_rooms == SelectSeq(cfg, LAMBDA c : c.name \notin names_db)
        names_cfg == {cfg[i].name : i \in DOMAIN cfg}
        to_delete_rooms == {r \in cat : r.name \notin names_cfg}
    IN [rooms |-> AddRooms(cat, to_add_rooms) \ to_delete_rooms,
        reservations |-> {r \in store : \A d \in to_delete_rooms : r.room_id # d.id}]

\* ---------------------------------------------------------------- queries

\* the rows of S in ascending order of key; rows of equal key, and the rows
\* of a statement with no ORDER BY, come in the order of the table scan,
\* which is that of the rowid
RECURSIVE InOrder(_, _)
InOrder(S, key) ==
    IF S = {} THEN <<>>
    ELSE LET m == CHOOSE x \in S :
                      \A y \in S : key[x] < key[y] \/ (key[x] = key[y] /\ x.id <= y.id)
         IN <<m>> \o InOrder(S \ {m}, key)

InScanOrder(S) == InOrder(S, [x \in S |-> 0])

\* ORDER BY id
InIdOrder(S) == InOrder(S, [x \in S |-> x.id])

\* reservation.room of a reservation whose room is in the table
RoomOf(cat, r) == CHOOSE room \in cat : room.id = r.room_id

HasRoom(cat, r) == \E room \in cat : room.id = r.room_id

T0000 == <<"0", "0", ":", "0", "0">>

\* lines 97-100: the rows of the join with rooms whose start_time is in
\* [target, target + 1 day)
RowsOfDay(store, cat, target) ==
    {r \in store : /\ HasRoom(cat, r)
                    /\ DtKey(r.start_time) >= DtKey(target)
                    /\ DtLt(r.start_time, PlusDays(target, 1))}

\* lines 109-117
EntryOfDay(cat, r, date) ==
    [id |-> r.id, room_id |-> r.room_id, room_name |-> RoomOf(cat, r).name,
     user_name |-> r.user_name,
     start_time |-> format_jst_time(convert_to_jst(r.start_time)),
     end_time |-> format_jst_time(convert_to_jst(r.end_time)),
     date |-> date]

EntriesOfDay(cat, rows, date) == [i \in DOMAIN rows |-> EntryOfDay(cat, rows[i], date)]

\* lines 94-125, given the parsed date
\* lines 107-119: the answer built from the rows of the query
ListedRows(cat, rows, date) ==
    [success |-> TRUE, reservations |-> EntriesOfDay(cat, rows, date)]

ListedOfDay(store, cat, date, target) ==
    IF ~target.ok THEN Failure(ErrDateFormat)
    ELSE ListedRows(cat, InScanOrder(RowsOfDay(store, cat, target.dt)), date)

get_reservations_by_date(store, cat, date) ==
    ListedOfDay(store, cat, date, parse_datetime_jst(date, T0000))

\* lines 147-155
EntryOfUser(cat, r) ==
    [id |-> r.id, room_id |-> r.room_id, room_name |-> RoomOf(cat, r).name,
     user_name |-> r.user_name,
     start_time |-> format_jst_time(convert_to_jst(r.start_time)),
     end_time |-> format_jst_time(convert_to_jst(r.end_time)),
     date |-> format_jst_date(convert_to_jst(r.start_time))]

EntriesOfUser(cat, rows) == [i \in DOMAIN rows |-> EntryOfUser(cat, rows[i])]

\* lines 139-168, given the rows of the user: reservation.room is None for
\* a row whose room is not in the table, and reading its name raises
ListedOfUser(cat, rows) ==
    IF \E r \in rows : ~HasRoom(cat, r) THEN Failure(ErrServer)
    ELSE [success |-> TRUE,
          reservations |-> EntriesOfUser(cat, InOrder(rows, [r \in rows |-> DtKey(r.start_time)]))]

get_reservations_by_username(store, cat, user_name) ==
    ListedOfUser(cat, {r \in store : r.user_name = user_name})

\* the call of line 504 passes user_name and date to
\* get_reservations_by_username, which takes user_name alone: it raises
\* TypeError whatever the date is, and the except branch of line 550 returns
_call_get_my_reservations_api(store, cat, date, user_name) ==
    Failure(ErrTypeError)

\* raise ValueError(e)
Raise(e) == [raised |-> TRUE, error |-> e]

\* the rooms whatever reservation overlaps, not only one of the room
FreeRooms_AnyRoom(store, cat, start_datetime, end_datetime) ==
    {room \in cat : ~\E r \in store :
                        /\ DtLt(r.start_time, end_datetime)
                        /\ DtLt(start_datetime, r.end_time)}

\* lines 199-212: the rooms with no reservation that overlaps
FreeRooms(store, cat, start_datetime, end_datetime) ==
    {room \in cat : ~\E r \in store :
                        /\ r.room_id = room.id
                        /\ DtLt(r.start_time, end_datetime)
                        /\ DtLt(start_datetime, r.end_time)}

RoomEntries(seq) == [i \in DOMAIN seq |-> [id |-> seq[i].id, name |-> seq[i].name]]

\* lines 192-216
FreeBetween(store, cat, start_datetime, end_datetime) ==
    IF \/ TimeOfDay(start_datetime.hour, start_datetime.minute) < TimeOfDay(STARTHOUR, 0)
       \/ TimeOfDay(end_datetime.hour, end_datetime.minute) > TimeOfDay(ENDHOUR, 0)
    THEN Raise(ErrFindHours)
    ELSE IF ~DtLt(start_datetime, end_datetime) THEN Raise(ErrOrdering)
    ELSE [raised |-> FALSE,
          rooms |-> RoomEntries(InIdOrder(FreeRooms(store, cat, start_datetime, end_datetime)))]

\* lines 185-190
FreeFrom(store, cat, start, duration_minutes) ==
    IF ~start.ok THEN Raise(ErrStartFormat)
    ELSE FreeBetween(store, cat, start.dt, PlusMinutes(start.dt, duration_minutes))

find_available_rooms_by_start_datetime_and_duration(store, cat, date, start_time, duration_minutes) ==
    IF duration_minutes <= 0 THEN Raise(ErrDuration)
    ELSE FreeFrom(store, cat, parse_datetime_jst(date, start_time), duration_minutes)

\* ----------------------------------------------------------------- inputs

HM(a, b, c, d) == <<a, b, ":", c, d>>

Ymd(m1, m2, d1, d2) == <<"2", "0", "2", "5", "-", m1, m2, "-", d1, d2>>

T0630 == HM("0", "6", "3", "0")
T0700 == HM("0", "7", "0", "0")
T1000 == HM("1", "0", "0", "0")
T2200 == HM("2", "2", "0", "0")
T2230 == HM("2", "2", "3", "0")
T2400 == HM("2", "4", "0", "0")

Oct24 == Ymd("1", "0", "2", "4")
Oct25 == Ymd("1", "0", "2", "5")
\* a day that no month has
Feb30 == Ymd("0", "2", "3", "0")

Request(room_id, date, start_time, end_time) ==
    [room_id |-> room_id, date |-> date, start_time |-> start_time, end_time |-> end_time]

\* the requests of Spec: on room 1, on either day, two back-to-back intervals
\* and the interval that spans both; one interval on room 2; one request for
\* an id that no room ever has, and one for a date that does not parse
BookingRequests ==
    {Request(1, date, iv[1], iv[2]) :
        date \in {Oct24, Oct25},
        iv \in {<<T0700, T1000>>, <<T1000, T2200>>, <<T0700, T2200>>}}
    \cup {Request(2, Oct24, T0700, T1000),
          Request(3, Oct24, T0700, T1000),
          Request(1, Feb30, T0700, T1000)}

\* the inputs of SpecV: times that are absent, before opening, at opening,
\* inside, at closing, after closing, and no time of day at all
TimeInputs == {<<>>, T0630, T0700, T1000, T2200, T2230, T2400}

DateInputs == {<<>>, Oct24, Feb30}

\* no room_id, and the id of a configured room
RoomIdInputs == {0, 1}

UserInputs == {"guest"}

ReservationIdInputs == 1 .. MaxId

RoomA == [name |-> "Room A", capacity |-> 4]

RoomB == [name |-> "Room B", capacity |-> 6]

\* the configurations init_db is run with
ConfigInputs == { <<RoomA, RoomB>>, <<RoomA>> }

\* the requests of SpecConc: the three intervals on either room on one day,
\* and one request that the validation rejects
ConcurrentRequests ==
    {Request(room_id, Oct24, iv[1], iv[2]) :
        room_id \in {1, 2},
        iv \in {<<T0700, T1000>>, <<T1000, T2200>>, <<T0700, T2200>>}}
    \cup {Request(1, Oct24, T1000, T0700)}

\* the creates of SpecQ: back-to-back intervals on room 1 by two users, the
\* later interval being one that can be booked first; the same interval on
\* room 2; and an interval of the next day
QueryBookings ==
    {[req |-> Request(1, Oct24, T1000, T2200), user_name |-> "alice"],
     [req |-> Request(1, Oct24, T0700, T1000), user_name |-> "guest"],
     [req |-> Request(2, Oct24, T0700, T1000), user_name |-> "guest"],
     [req |-> Request(1, Oct25, T0700, T1000), user_name |-> "guest"]}

Availability(date, start_time, duration_minutes) ==
    [date |-> date, start_time |-> start_time, duration_minutes |-> duration_minutes]

\* the availability queries: within hours, from before opening, to after
\* closing, to the small hours of the next day, of no duration, of a start
\* and of a date that do not parse
AvailabilityInputs ==
    {Availability(Oct24, T0700, 180), Availability(Oct24, T1000, 180),
     Availability(Oct24, T0700, 900), Availability(Oct24, T1000, 900),
     Availability(Oct24, T1000, 780), Availability(Oct24, T0630, 180),
     Availability(Oct24, T0700, 0), Availability(Oct24, T0630, 0),
     Availability(Oct24, T2400, 180), Availability(Feb30, T0700, 180)}

DayInputs == {Oct24, Oct25, Feb30}

NameInputs == {"guest", "alice"}

\* args.get("date") of the assistant's call: None or a date
MyDateInputs == {<<>>, Oct24}

\* the requests in flight at once
Procs == {1, 2}

\* the chat sessions that have a key in Redis
Sessions == {"s1"}

\* no key holds a message
NoHistory == [s \in Sessions |-> <<>>]

\* ------------------------------------------------------------ state machine

Idle == [pc |-> "idle"]

Init ==
    /\ rooms = init_db({}, {}, <<RoomA, RoomB>>).rooms
    /\ reservations = {}
    /\ last = [op |-> "none"]
    /\ proc = [p \in Procs |-> Idle]
    /\ chat_history = NoHistory

WithinBounds(store) ==
    /\ Cardinality(store) <= MaxReservations
    /\ \A r \in store : r.id <= MaxId

\* the store and the record a call leaves
Returned(op, args, out) ==
    /\ WithinBounds(out.store)
    /\ reservations' = out.store
    /\ last' = [op |-> op, args |-> args, result |-> out.result]

CreateReservation(room_id, user_name, date, start_time, end_time) ==
    /\ Returned("create",
                [room_id |-> room_id, user_name |-> user_name, date |-> date,
                 start_time |-> start_time, end_time |-> end_time],
                create_reservation(reservations, rooms, room_id, user_name,
                                   date, start_time, end_time))
    /\ UNCHANGED <<chat_history, rooms, proc>>

CancelReservation(reservation_id) ==
    /\ Returned("cancel", [reservation_id |-> reservation_id],
                cancel_reservation(reservations, reservation_id))
    /\ UNCHANGED <<chat_history, rooms, proc>>

\* the catalog and the store init_db leaves
Synced(cfg, out) ==
    /\ rooms' = out.rooms
    /\ reservations' = out.reservations
    /\ last' = [op |-> "init_db", args |-> [cfg |-> cfg]]

InitDb(cfg) ==
    /\ Synced(cfg, init_db(rooms, reservations, cfg))
    /\ UNCHANGED <<chat_history, proc>>

Next ==
    \/ \E req \in BookingRequests, user_name \in UserInputs :
          CreateReservation(req.room_id, user_name, req.date, req.start_time, req.end_time)
    \/ \E reservation_id \in ReservationIdInputs : CancelReservation(reservation_id)
    \/ \E cfg \in ConfigInputs : InitDb(cfg)

Spec == Init /\ [][Next]_vars

\* create and cancel alone, the create requests drawn from every combination
\* of the validation inputs
NextV ==
    \/ \E room_id \in RoomIdInputs, user_name \in UserInputs, date \in DateInputs,
          start_time \in TimeInputs, end_time \in TimeInputs :
          CreateReservation(room_id, user_name, date, start_time, end_time)
    \/ \E reservation_id \in ReservationIdInputs : CancelReservation(reservation_id)

SpecV == Init /\ [][NextV]_vars

\* ----------------------------------------------------- with the queries

\* a query that leaves the reservations table empty
Queried_Dropping(op, args, result) ==
    /\ last' = [op |-> op, args |-> args, result |-> result,
                again |-> last.op = op /\ last.args = args]
    /\ reservations' = {}
    /\ UNCHANGED <<chat_history, rooms, proc>>

\* a query that deletes the newest reservation
Queried_Consuming(op, args, result) ==
    /\ last' = [op |-> op, args |-> args, result |-> result,
                again |-> last.op = op /\ last.args = args]
    /\ reservations' = {r \in reservations : \E t \in reservations : t.id > r.id}
    /\ UNCHANGED <<chat_history, rooms, proc>>

\* a query adds nothing to its session, deletes nothing and does not
\* commit; again records that the call before it was the same query
Queried(op, args, result) ==
    /\ last' = [op |-> op, args |-> args, result |-> result,
                again |-> last.op = op /\ last.args = args]
    /\ reservations' = reservations
    /\ UNCHANGED <<chat_history, rooms, proc>>

FindAvailableRooms(date, start_time, duration_minutes) ==
    Queried("find_available_rooms",
            Availability(date, start_time, duration_minutes),
            find_available_rooms_by_start_datetime_and_duration(
                reservations, rooms, date, start_time, duration_minutes))

GetReservationsByDate(date) ==
    Queried("get_reservations_by_date", [date |-> date],
            get_reservations_by_date(reservations, rooms, date))

GetReservationsByUsername(user_name) ==
    Queried("get_reservations_by_username", [user_name |-> user_name],
            get_reservations_by_username(reservations, rooms, user_name))

CallGetMyReservationsApi(date, user_name) ==
    Queried("_call_get_my_reservations_api", [date |-> date, user_name |-> user_name],
            _call_get_my_reservations_api(reservations, rooms, date, user_name))

NextQ ==
    \/ \E b \in QueryBookings :
          CreateReservation(b.req.room_id, b.user_name, b.req.date,
                            b.req.start_time, b.req.end_time)
    \/ \E reservation_id \in ReservationIdInputs : CancelReservation(reservation_id)
    \/ \E cfg \in ConfigInputs : InitDb(cfg)
    \/ \E q \in AvailabilityInputs :
          FindAvailableRooms(q.date, q.start_time, q.duration_minutes)
    \/ \E date \in DayInputs : GetReservationsByDate(date)
    \/ \E user_name \in NameInputs : GetReservationsByUsername(user_name)
    \/ \E date \in MyDateInputs, user_name \in NameInputs :
          CallGetMyReservationsApi(date, user_name)

SpecQ == Init /\ [][NextQ]_vars

\* create and cancel with every combination of the validation inputs, and
\* the list of a day
NextR ==
    \/ NextV
    \/ \E date \in DayInputs : GetReservationsByDate(date)

SpecR == Init /\ [][NextR]_vars

\* the cancel that checks the user: the reservations table it works on is
\* the one the creates fill
ServicesCancelReservation(reservation_id, user_name) ==
    /\ Returned("services_cancel",
                [reservation_id |-> reservation_id, user_name |-> user_name],
                services_cancel_reservation(reservations, reservation_id, user_name))
    /\ UNCHANGED <<chat_history, rooms, proc>>

\* creates by two users, and cancels by either of them and by a third
OwnerInputs == {"guest", "alice", "bob"}

NextO ==
    \/ \E b \in QueryBookings :
          CreateReservation(b.req.room_id, b.user_name, b.req.date,
                            b.req.start_time, b.req.end_time)
    \/ \E reservation_id \in ReservationIdInputs, user_name \in OwnerInputs :
          ServicesCancelReservation(reservation_id, user_name)

SpecO == Init /\ [][NextO]_vars

\* a room that the first configuration does not have
RoomC == [name |-> "Room C", capacity |-> 8]

\* the configurations of SpecS: the first one, one without Room B, and one
\* that drops Room A and brings Room C
SyncConfigs == { <<RoomA, RoomB>>, <<RoomA>>, <<RoomB, RoomC>> }

\* the creates of SpecS: one interval in each of three rooms
SyncBookings == {Request(room_id, Oct24, T0700, T1000) : room_id \in 1 .. 3}

\* init_db run with ROOMS_CONFIG = cfg, as index() runs it
SyncCatalog(cfg) ==
    /\ \A room \in init_db(rooms, reservations, cfg).rooms : room.id <= MaxRoomId
    /\ InitDb(cfg)

NextS ==
    \/ \E req \in SyncBookings, user_name \in UserInputs :
          CreateReservation(req.room_id, user_name, req.date, req.start_time, req.end_time)
    \/ \E reservation_id \in ReservationIdInputs : CancelReservation(reservation_id)
    \/ \E cfg \in SyncConfigs : SyncCatalog(cfg)

SpecS == Init /\ [][NextS]_vars

\* ------------------------------------------------------ the create route

\* the texts that the routes look for in an error message
\* "必須項目"
MarkRequired == "required_fields"
\* "形式"
MarkFormat == "format"
\* "見つかりません"
MarkNotFound == "not_found"

\* which of those texts the message of an error of create_reservation
\* contains
MarksOf(error) ==
    CASE error = ErrMissing -> {MarkRequired}
      [] error = ErrFormat -> {MarkFormat}
      [] error = ErrNotFound -> {MarkNotFound}
      [] OTHER -> {}

\* app.py lines 43-45
StatusOfCreateError(error) ==
    IF MarkNotFound \in MarksOf(error) THEN 404
    ELSE IF MarkRequired \in MarksOf(error) \/ MarkFormat \in MarksOf(error) THEN 400
    ELSE 409

\* app.py lines 40-46: the status of the answer
StatusOfCreate(result) ==
    IF result.success THEN 200 ELSE StatusOfCreateError(result.error)

\* the store and the record the request leaves
Answer(out, args) ==
    /\ WithinBounds(out.store)
    /\ reservations' = out.store
    /\ last' = [op |-> "post_reservations", args |-> args, result |-> out.result,
                status |-> StatusOfCreate(out.result)]

\* POST /api/reservations with the fields of the body: a room-id that is
\* absent or empty goes to the service as None, and the user is "guest"
PostReservations(room_id, date, start_time, end_time) ==
    /\ Answer(create_reservation(reservations, rooms, room_id, "guest",
                                 date, start_time, end_time),
              [room_id |-> room_id, date |-> date,
               start_time |-> start_time, end_time |-> end_time])
    /\ UNCHANGED <<chat_history, rooms, proc>>

NextH ==
    \/ \E room_id \in RoomIdInputs, date \in DateInputs,
          start_time \in TimeInputs, end_time \in TimeInputs :
          PostReservations(room_id, date, start_time, end_time)
    \/ \E reservation_id \in ReservationIdInputs : CancelReservation(reservation_id)

SpecH == Init /\ [][NextH]_vars

\* ------------------------------------------- create_reservation in steps

\* the request after lines 33-43: about to open the session, or returned
Begun(req, user_name, pre) ==
    IF pre.ok
    THEN [pc |-> "check", req |-> req, user_name |-> user_name,
          start_datetime |-> pre.start_datetime, end_datetime |-> pre.end_datetime]
    ELSE [pc |-> "done", req |-> req, user_name |-> user_name, result |-> pre.result]

\* lines 33-43: validation and conversion; no session is open yet
CreateBegin(p, req, user_name) ==
    /\ proc[p].pc = "idle"
    /\ proc' = [proc EXCEPT ![p] =
                   Begun(req, user_name,
                         PrepareCreate(req.room_id, req.date, req.start_time, req.end_time))]
    /\ UNCHANGED <<chat_history, rooms, reservations, last>>

\* a check that waits for every other request that is between its check and
\* its commit
CreateCheck_Waiting(p) ==
    /\ proc[p].pc = "check"
    /\ \A q \in Procs \ {p} : proc[q].pc \notin {"check", "insert"}
    /\ proc' = [proc EXCEPT ![p] =
                   IF _check_conflict(reservations, proc[p].req.room_id,
                                      proc[p].start_datetime, proc[p].end_datetime)
                   THEN [pc |-> "done", req |-> proc[p].req, user_name |-> proc[p].user_name,
                         result |-> Failure(ErrConflict)]
                   ELSE [proc[p] EXCEPT !.pc = "insert"]]
    /\ UNCHANGED <<chat_history, rooms, reservations, last>>

\* lines 46-48: the SELECT of _check_conflict reads the committed rows
CreateCheck(p) ==
    /\ proc[p].pc = "check"
    /\ proc' = [proc EXCEPT ![p] =
                   IF _check_conflict(reservations, proc[p].req.room_id,
                                      proc[p].start_datetime, proc[p].end_datetime)
                   THEN [pc |-> "done", req |-> proc[p].req, user_name |-> proc[p].user_name,
                         result |-> Failure(ErrConflict)]
                   ELSE [proc[p] EXCEPT !.pc = "insert"]]
    /\ UNCHANGED <<chat_history, rooms, reservations, last>>

\* lines 50-58: session.add and session.commit
CreateInsert(p) ==
    /\ proc[p].pc = "insert"
    /\ reservations' = InsertReservation(reservations, proc[p].req.room_id, proc[p].user_name,
                                         proc[p].start_datetime, proc[p].end_datetime)
    /\ proc' = [proc EXCEPT ![p] =
                   [pc |-> "get_room", req |-> proc[p].req, user_name |-> proc[p].user_name,
                    id |-> NextRowId({r.id : r \in reservations})]]
    /\ UNCHANGED <<chat_history, rooms, last>>

\* lines 60-74: session.get(models.Room, room_id) and the result
CreateReturn(p) ==
    /\ proc[p].pc = "get_room"
    /\ proc' = [proc EXCEPT ![p] =
                   [pc |-> "done", req |-> proc[p].req, user_name |-> proc[p].user_name,
                    result |-> [success |-> TRUE, id |-> proc[p].id,
                                room_name |-> RoomName(rooms, proc[p].req.room_id)]]]
    /\ UNCHANGED <<chat_history, rooms, reservations, last>>

NextConc ==
    \/ \E p \in Procs, req \in ConcurrentRequests, user_name \in UserInputs :
          CreateBegin(p, req, user_name)
    \/ \E p \in Procs : CreateCheck(p)
    \/ \E p \in Procs : CreateInsert(p)
    \/ \E p \in Procs : CreateReturn(p)

SpecConc == Init /\ [][NextConc]_vars

\* ------------------------------------------- cancel_reservation in steps

\* the creates that the concurrent cancels come after
CancelRequests ==
    {Request(1, Oct24, T0700, T1000), Request(1, Oct24, T1000, T2200),
     Request(2, Oct24, T0700, T1000)}

\* the store and the record left by creates run one after the other from the
\* constructed state, the last of them for req
Booked(cat, store, req) ==
    create_reservation(store, cat, req.room_id, "guest", req.date, req.start_time, req.end_time)

AfterCreate(req, out) ==
    /\ reservations = out.store
    /\ last = [op |-> "create",
               args |-> [room_id |-> req.room_id, user_name |-> "guest", date |-> req.date,
                         start_time |-> req.start_time, end_time |-> req.end_time],
               result |-> out.result]

\* the state after two creates: no cancel has started
InitCancel ==
    /\ rooms = init_db({}, {}, <<RoomA, RoomB>>).rooms
    /\ \E a, b \in CancelRequests :
          AfterCreate(b, Booked(rooms, Booked(rooms, {}, a).store, b))
    /\ proc = [p \in Procs |-> Idle]
    /\ chat_history = NoHistory

Cancelling(reservation_id, found) ==
    IF found
    THEN [pc |-> "delete", reservation_id |-> reservation_id]
    ELSE [pc |-> "done", reservation_id |-> reservation_id, result |-> Failure(ErrNotFound)]

\* lines 231-237: the SELECT by id reads the committed rows
CancelLookup(p, reservation_id) ==
    /\ proc[p].pc = "idle"
    /\ proc' = [proc EXCEPT ![p] =
                   Cancelling(reservation_id, \E r \in reservations : r.id = reservation_id)]
    /\ UNCHANGED <<chat_history, rooms, reservations, last>>

CancelDone(p, result) ==
    proc' = [proc EXCEPT ![p] =
                [pc |-> "done", reservation_id |-> proc[p].reservation_id, result |-> result]]

\* lines 239-246: DELETE FROM reservations WHERE id = ? and the commit, the
\* row being there
CancelDelete(p) ==
    /\ proc[p].pc = "delete"
    /\ \E r \in reservations : r.id = proc[p].reservation_id
    /\ reservations' = {r \in reservations : r.id # proc[p].reservation_id}
    /\ CancelDone(p, [success |-> TRUE, reservation_id |-> proc[p].reservation_id])
    /\ UNCHANGED <<chat_history, rooms, last>>

\* lines 239-246, the row having been deleted since the lookup: the DELETE
\* matches no row, for which the unit of work warns (no version column is
\* mapped) and the commit goes through
CancelDeleteGone(p) ==
    /\ proc[p].pc = "delete"
    /\ \A r \in reservations : r.id # proc[p].reservation_id
    /\ CancelDone(p, [success |-> TRUE, reservation_id |-> proc[p].reservation_id])
    /\ UNCHANGED <<chat_history, rooms, reservations, last>>

\* lines 239-249, the row having been deleted since the lookup, in a process
\* that raises warnings as errors: the except branch returns the server error
CancelDeleteGoneRaised(p) ==
    /\ proc[p].pc = "delete"
    /\ \A r \in reservations : r.id # proc[p].reservation_id
    /\ CancelDone(p, Failure(ErrServer))
    /\ UNCHANGED <<chat_history, rooms, reservations, last>>

NextCancel ==
    \/ \E p \in Procs, reservation_id \in ReservationIdInputs : CancelLookup(p, reservation_id)
    \/ \E p \in Procs : CancelDelete(p)
    \/ \E p \in Procs : CancelDeleteGone(p)
    \/ \E p \in Procs : CancelDeleteGoneRaised(p)

SpecCancel == InitCancel /\ [][NextCancel]_vars

\* --------------------------------------------- every operation in steps

\* the requests of SpecLive: a create that is accepted when the slot is
\* free and one the validation turns down, the list of a day and of a date
\* that does not parse, an availability query that is accepted and one of no
\* duration
LiveRequests == {Request(1, Oct24, T0700, T1000), Request(1, Oct24, T1000, T0700)}

LiveDays == {Oct24, Feb30}

LiveAvailability == {Availability(Oct24, T0700, 180), Availability(Oct24, T0700, 0)}

\* lines 94-95 of get_reservations_by_date: the date is parsed before the
\* session is opened, and target_date is what the query is given
Listing(date, target) ==
    IF target.ok THEN [pc |-> "select_day", date |-> date, target_date |-> target]
    ELSE [pc |-> "done", date |-> date, result |-> ListedOfDay({}, {}, date, target)]

ListBegin(p, date) ==
    /\ proc[p].pc = "idle"
    /\ proc' = [proc EXCEPT ![p] = Listing(date, parse_datetime_jst(date, T0000))]
    /\ UNCHANGED <<chat_history, rooms, reservations, last>>

\* the request of p returns result
Answered(p, result) ==
    proc' = [proc EXCEPT ![p] = [proc[p] EXCEPT !.pc = "done"] @@ [result |-> result]]

\* lines 96-119: the SELECT reads the committed rows
ListSelect(p) ==
    /\ proc[p].pc = "select_day"
    /\ \E rows \in {InScanOrder(RowsOfDay(reservations, rooms, proc[p].target_date.dt))} :
          Answered(p, ListedRows(rooms, rows, proc[p].date))
    /\ UNCHANGED <<chat_history, rooms, reservations, last>>

\* lines 182-197 of find_available_rooms: the checks on the arguments, which
\* read no row, raise or let the query go on to its session with the parsed
\* start_datetime
Finding(q, start, checked) ==
    IF checked.raised THEN [pc |-> "done", query |-> q, result |-> checked]
    ELSE [pc |-> "select_free", query |-> q, start_datetime |-> start]

FindBegin(p, q) ==
    /\ proc[p].pc = "idle"
    /\ proc' = [proc EXCEPT ![p] =
                   Finding(q, parse_datetime_jst(q.date, q.start_time),
                           find_available_rooms_by_start_datetime_and_duration(
                               {}, {}, q.date, q.start_time, q.duration_minutes))]
    /\ UNCHANGED <<chat_history, rooms, reservations, last>>

\* lines 199-216: the SELECT reads the committed rows
FindSelect(p) ==
    /\ proc[p].pc = "select_free"
    /\ Answered(p, FreeFrom(reservations, rooms, proc[p].start_datetime,
                            proc[p].query.duration_minutes))
    /\ UNCHANGED <<chat_history, rooms, reservations, last>>

\* a request arrives
Arrival(p) ==
    \/ \E req \in LiveRequests, user_name \in UserInputs : CreateBegin(p, req, user_name)
    \/ \E reservation_id \in ReservationIdInputs : CancelLookup(p, reservation_id)
    \/ \E date \in LiveDays : ListBegin(p, date)
    \/ \E q \in LiveAvailability : FindBegin(p, q)

\* the thread that serves the request of p runs its next statement
Proceed(p) ==
    \/ CreateCheck(p)
    \/ CreateInsert(p)
    \/ CreateReturn(p)
    \/ CancelDelete(p)
    \/ CancelDeleteGone(p)
    \/ CancelDeleteGoneRaised(p)
    \/ ListSelect(p)
    \/ FindSelect(p)

NextLive == \E p \in Procs : Arrival(p) \/ Proceed(p)

\* each request is served by a thread of its own, which the scheduler does
\* not leave waiting for ever; no statement of the operations waits for
\* another request
SpecLive == InitCancel /\ [][NextLive]_vars /\ \A p \in Procs : WF_vars(Proceed(p))

\* ------------------------------------------------------ the chat history

\* the messages the users send
ChatMessages == {<<"hello">>, <<"book">>}

\* session_id of process_chat_message: None, or the id of a session
SessionInputs == {NoneVal} \cup Sessions

\* what the chat completion answers: text, or the call of a tool by its
\* name, which may be none of the names the if/elif chain of lines 290-299
\* knows; or the request raises
Completions ==
    {[kind |-> "content"],
     [kind |-> "tool", fn |-> "find_available_rooms"],
     [kind |-> "tool", fn |-> "no_such_function"],
     [kind |-> "raised"]}

KnownTools ==
    {"create_reservation", "find_available_rooms", "get_reservations",
     "get_my_reservations", "cancel_reservation"}

\* the text answered to message: msg.content, or the "response" of the
\* result of the tool
ResponseTo(message, reply) ==
    IF reply.kind = "content" THEN <<"content">> \o message ELSE <<reply.fn>> \o message

\* redis_service.add_message: RPUSH of the message to the list of the key
add_message(history, session_id, role, content) ==
    [history EXCEPT ![session_id] = Append(@, [role |-> role, content |-> content])]

\* redis_service.get_history: LRANGE 0 -1 of the key
get_history(history, session_id) == history[session_id]

\* lines 250-258: the history is read into the messages of the request
ChatBegin(p, message, session_id) ==
    /\ proc[p].pc = "idle"
    /\ \A s \in Sessions : Len(chat_history[s]) < MaxHistory
    /\ proc' = [proc EXCEPT ![p] =
                   [pc |-> "completion", message |-> message, session_id |-> session_id,
                    messages |-> IF session_id = NoneVal THEN <<>>
                                 ELSE get_history(chat_history, session_id)]]
    /\ UNCHANGED <<rooms, reservations, last, chat_history>>

\* the request after lines 261-271
Completed(c, reply) ==
    IF reply.kind = "raised"
    THEN [pc |-> "done", message |-> c.message, session_id |-> c.session_id,
          result |-> Failure(ErrServer)]
    ELSE [pc |-> "add_user", message |-> c.message, session_id |-> c.session_id,
          reply |-> reply]

\* lines 261-271: the chat completion answers
ChatCompletion(p, reply) ==
    /\ proc[p].pc = "completion"
    /\ proc' = [proc EXCEPT ![p] = Completed(proc[p], reply)]
    /\ UNCHANGED <<rooms, reservations, last, chat_history>>

\* lines 274-276: the user's message is stored
ChatAddUser(p) ==
    /\ proc[p].pc = "add_user"
    /\ chat_history' = IF proc[p].session_id = NoneVal THEN chat_history
                       ELSE add_message(chat_history, proc[p].session_id, "user",
                                        proc[p].message)
    /\ proc' = [proc EXCEPT ![p] = [proc[p] EXCEPT !.pc = "respond"]]
    /\ UNCHANGED <<rooms, reservations, last>>

\* result = None of line 289
NoResult == [none |-> TRUE]

\* lines 289-299: the result of the tool call; None for a name that none of
\* the branches knows
ToolResult(message, reply) ==
    IF reply.fn \in KnownTools
    THEN [success |-> TRUE, response |-> ResponseTo(message, reply)]
    ELSE NoResult

\* lines 278-318: the answer that is returned
ChatResult(message, reply) ==
    IF reply.kind = "tool" THEN ToolResult(message, reply)
    ELSE [success |-> TRUE, response |-> ResponseTo(message, reply)]

\* lines 301-303 and 310-312: the answer is stored when there is one
Responded(history, session_id, result) ==
    IF session_id = NoneVal \/ result = NoResult THEN history
    ELSE add_message(history, session_id, "assistant", result.response)

\* lines 278-318: the tool runs, the answer is stored and returned
ChatRespond(p) ==
    /\ proc[p].pc = "respond"
    /\ chat_history' = Responded(chat_history, proc[p].session_id,
                                 ChatResult(proc[p].message, proc[p].reply))
    /\ proc' = [proc EXCEPT ![p] =
                   [pc |-> "done", message |-> proc[p].message,
                    session_id |-> proc[p].session_id,
                    result |-> ChatResult(proc[p].message, proc[p].reply)]]
    /\ UNCHANGED <<rooms, reservations, last>>

\* the thread that served the message takes the next one
ChatReturn(p) ==
    /\ proc[p].pc = "done"
    /\ proc' = [proc EXCEPT ![p] = Idle]
    /\ UNCHANGED <<rooms, reservations, last, chat_history>>

NextChat ==
    \E p \in Procs :
        \/ \E message \in ChatMessages, session_id \in SessionInputs :
              ChatBegin(p, message, session_id)
        \/ \E reply \in Completions : ChatCompletion(p, reply)
        \/ ChatAddUser(p)
        \/ ChatRespond(p)
        \/ ChatReturn(p)

SpecChat == Init /\ [][NextChat]_vars

\* ------------------------------------------------- the time utilities

\* the decimal digits of n with no leading zero
RECURSIVE Decimal(_)
Decimal(n) == IF n < 10 THEN <<DigitChar(n)>> ELSE Decimal(n \div 10) \o <<DigitChar(n % 10)>>

\* %Y of strftime: the C library's; glibc writes a year below 1000 without
\* leading zeros, other libraries pad it to four digits
strftime_Y(y) == IF y >= 1000 THEN {Year4(y)} ELSE {Decimal(y), Year4(y)}

\* the texts dt.strftime("%Y-%m-%d") of format_jst_date can return
format_jst_date_outcomes(dt) ==
    {year \o <<"-">> \o Pad2(dt.month) \o <<"-">> \o Pad2(dt.day) : year \in strftime_Y(dt.year)}

\* a datetime with its second and microsecond
Instant(dt, second, microsecond) == dt @@ [second |-> second, microsecond |-> microsecond]

round_down_to_30min_KeepingSeconds(dt) ==
    [dt EXCEPT !.minute = (dt.minute \div 30) * 30]

round_down_to_30min(dt) ==
    [dt EXCEPT !.minute = (dt.minute \div 30) * 30, !.second = 0, !.microsecond = 0]

ErrOverflow == "OverflowError"

\* datetime.max is in year 9999: a sum beyond it raises OverflowError
DatetimeSum(sum) ==
    IF sum.year > 9999 THEN Raise(ErrOverflow) ELSE [raised |-> FALSE, dt |-> sum]

get_next_30min_slot_RoundingUp(dt) ==
    IF dt.minute % 30 = 0 /\ dt.second = 0 /\ dt.microsecond = 0
    THEN [raised |-> FALSE, dt |-> dt]
    ELSE DatetimeSum(PlusMinutes(round_down_to_30min(dt), 30))

get_next_30min_slot(dt) ==
    DatetimeSum(PlusMinutes(round_down_to_30min(dt), 30))

\* lines 126-128: the end, and the two texts returned
TimesForNow(start_dt, end) ==
    IF end.raised THEN end
    ELSE [raised |-> FALSE,
          start_time |-> format_jst_time(start_dt), end_time |-> format_jst_time(end.dt)]

\* line 126: next_slot_dt + timedelta(minutes=duration_minutes)
EndForNow(start_dt, next, duration_minutes) ==
    IF next.raised THEN next
    ELSE TimesForNow(start_dt, DatetimeSum(PlusMinutes(next.dt, duration_minutes)))

\* an end counted from the rounded start, not from the next slot
calculate_reservation_time_for_now_FromStart(current_time, duration_minutes) ==
    EndForNow(round_down_to_30min(current_time),
              [raised |-> FALSE, dt |-> round_down_to_30min(current_time)], duration_minutes)

calculate_reservation_time_for_now(current_time, duration_minutes) ==
    EndForNow(round_down_to_30min(current_time), get_next_30min_slot(current_time),
              duration_minutes)

\* the durations of SpecT: none, half an hour, one hour, ten hours
UtilDurations == {0, 30, 60, 600}

\* the dates of SpecT: a year below 1000, a day of the bookings, a leap day,
\* the last day of datetime, and a day that no month has
Y0999Jan01 == <<"0", "9", "9", "9", "-", "0", "1", "-", "0", "1">>
Y2024Feb29 == <<"2", "0", "2", "4", "-", "0", "2", "-", "2", "9">>
Y9999Dec31 == <<"9", "9", "9", "9", "-", "1", "2", "-", "3", "1">>

UtilDates == {Y0999Jan01, Oct24, Y2024Feb29, Y9999Dec31, Feb30}

\* the times of SpecT: on and off the half hours, the first and the last
\* minute of a day, and an hour written with one digit
UtilTimes == {HM("0", "0", "0", "0"), HM("0", "7", "0", "4"), HM("1", "4", "3", "0"),
              HM("1", "4", "3", "5"), HM("2", "3", "3", "0"), HM("2", "3", "5", "9"),
              <<"9", ":", "0", "0">>}

UtilSeconds == {0, 59}

UtilMicroseconds == {0, 999999}

\* the arguments are drawn; nothing is stored and no request is served
InitT ==
    /\ rooms = {}
    /\ reservations = {}
    /\ proc = [p \in Procs |-> Idle]
    /\ chat_history = NoHistory
    /\ \E date \in UtilDates, time \in UtilTimes,
          second \in UtilSeconds, microsecond \in UtilMicroseconds :
          last = [op |-> "none",
                  args |-> [date |-> date, time |-> time,
                            second |-> second, microsecond |-> microsecond]]

\* the call op on the drawn arguments returned result
Applied(op, result) ==
    /\ last.op = "none"
    /\ last' = [op |-> op, args |-> last.args, result |-> result]
    /\ UNCHANGED <<chat_history, rooms, reservations, proc>>

\* format_jst_time and format_jst_date of parse_datetime_jst(date, time)
Formatted(parsed) ==
    IF ~parsed.ok THEN Applied("parse_and_format", [raised |-> TRUE])
    ELSE \E date \in format_jst_date_outcomes(parsed.dt) :
            Applied("parse_and_format",
                    [raised |-> FALSE, time |-> format_jst_time(parsed.dt), date |-> date])

ParseAndFormat == Formatted(parse_datetime_jst(last.args.date, last.args.time))

\* the instant of the drawn arguments, when they are one
ArgsInstant(parsed) == Instant(parsed.dt, last.args.second, last.args.microsecond)

RoundDownOf(parsed) ==
    /\ parsed.ok
    /\ Applied("round_down_to_30min",
               [dt |-> ArgsInstant(parsed), rounded |-> round_down_to_30min(ArgsInstant(parsed))])

RoundDownTo30min == RoundDownOf(parse_datetime_jst(last.args.date, last.args.time))

NextSlotOf(parsed) ==
    /\ parsed.ok
    /\ Applied("get_next_30min_slot",
               [dt |-> ArgsInstant(parsed), next |-> get_next_30min_slot(ArgsInstant(parsed))])

GetNext30minSlot == NextSlotOf(parse_datetime_jst(last.args.date, last.args.time))

TimesForNowOf(parsed, duration_minutes) ==
    /\ parsed.ok
    /\ Applied("calculate_reservation_time_for_now",
               [current_time |-> ArgsInstant(parsed), duration_minutes |-> duration_minutes,
                times |-> calculate_reservation_time_for_now(ArgsInstant(parsed),
                                                             duration_minutes)])

CalculateReservationTimeForNow ==
    \E duration_minutes \in UtilDurations :
        TimesForNowOf(parse_datetime_jst(last.args.date, last.args.time), duration_minutes)

NextT ==
    \/ ParseAndFormat
    \/ RoundDownTo30min
    \/ GetNext30minSlot
    \/ CalculateReservationTimeForNow

SpecT == InitT /\ [][NextT]_vars

\* ----------------------------------------------------------------- claims

\* r1.end <= r2.start, on the stored values
EndsByStartOf(r1, r2) == DtKey(r1.end_time) <= DtKey(r2.start_time)

\* the interval a create request asks for, when its date and times parse
Candidate(a) == PrepareCreate(a.room_id, a.date, a.start_time, a.end_time)

Rejected(result, e) == ~result.success /\ result.error = e

\* the outcome of the validation of a create request
Validation(a) == _validate_reservation_data(a.room_id, a.date, a.start_time, a.end_time)

\* C1: after any sequence of create_reservation and cancel_reservation calls
\* run one at a time, any two distinct stored reservations of one room
\* satisfy R1.end <= R2.start or R2.end <= R1.start.
NoDoubleBooking ==
    \A r1, r2 \in reservations :
        (r1 # r2 /\ r1.room_id = r2.room_id) => (EndsByStartOf(r1, r2) \/ EndsByStartOf(r2, r1))

\* two reservations of one room and one day are stored, and the last create
\* was turned down for a conflict
TwoOnOneRoomAndConflictSeen ==
    /\ \E r1, r2 \in reservations :
          /\ r1.id # r2.id
          /\ r1.room_id = r2.room_id
          /\ r1.start_time.day = r2.start_time.day
    /\ last.op = "create"
    /\ Rejected(last.result, ErrConflict)

Succeeded(p) == proc[p].pc = "done" /\ proc[p].result.success

RequestsOverlap(a, b) ==
    /\ a.room_id = b.room_id
    /\ Candidate(a).ok /\ Candidate(b).ok
    /\ DtLt(Candidate(a).start_datetime, Candidate(b).end_datetime)
    /\ DtLt(Candidate(b).start_datetime, Candidate(a).end_datetime)

\* C2: when two create_reservation requests for overlapping intervals on the
\* same room run concurrently, check and insert+commit being separate steps,
\* no interleaving lets both succeed.
ConcurrentOverlappingCreatesNeverBothSucceed ==
    \A p, q \in Procs :
        (p # q /\ Succeeded(p) /\ Succeeded(q)) => ~RequestsOverlap(proc[p].req, proc[q].req)

\* C3: two concurrent create_reservation requests for the identical valid
\* interval on the same free room: exactly one returns success and the other
\* returns the conflict error.
IdenticalConcurrentCreatesExactlyOneSucceeds ==
    \A p, q \in Procs :
        (/\ p # q
         /\ proc[p].pc = "done" /\ proc[q].pc = "done"
         /\ proc[p].req = proc[q].req
         /\ Candidate(proc[p].req).ok)
        => \/ proc[p].result.success /\ Rejected(proc[q].result, ErrConflict)
           \/ proc[q].result.success /\ Rejected(proc[p].result, ErrConflict)

\* C4: a create_reservation request that passes validation (and whose date
\* parses) is rejected with the conflict error if and only if some stored
\* reservation of the same room_id has start < candidate_end and
\* end > candidate_start.
ConflictIffOverlap ==
    [][(last'.op = "create" /\ Candidate(last'.args).ok)
       => (Rejected(last'.result, ErrConflict)
           <=> \E r \in reservations :
                  /\ r.room_id = last'.args.room_id
                  /\ DtKey(r.start_time) < DtKey(Candidate(last'.args).end_datetime)
                  /\ DtKey(r.end_time) > DtKey(Candidate(last'.args).start_datetime))]_vars

\* a create was accepted while the same interval is booked on another room,
\* or an interval of the same hours is booked on the same room on another day
AcceptedBesideOtherRoomAndOtherDay ==
    /\ last.op = "create"
    /\ last.result.success
    /\ \E r, o \in reservations :
          /\ r.id = last.result.id
          /\ o.id # r.id
          /\ \/ o.room_id # r.room_id /\ o.start_time = r.start_time
             \/ o.room_id = r.room_id /\ o.start_time.day # r.start_time.day
                /\ o.start_time.hour = r.start_time.hour

\* C5: if a room holds a reservation [s, e), a create_reservation on the
\* same room for an interval that starts exactly at e, or ends exactly at s,
\* and overlaps no reservation of the room, succeeds.
BackToBackAccepted ==
    [][(/\ last'.op = "create"
        /\ Candidate(last'.args).ok
        /\ \E r \in reservations :
              /\ r.room_id = last'.args.room_id
              /\ \/ DtKey(r.end_time) = DtKey(Candidate(last'.args).start_datetime)
                 \/ DtKey(r.start_time) = DtKey(Candidate(last'.args).end_datetime)
        /\ \A r \in reservations :
              r.room_id = last'.args.room_id
              => \/ DtKey(r.end_time) <= DtKey(Candidate(last'.args).start_datetime)
                 \/ DtKey(Candidate(last'.args).end_datetime) <= DtKey(r.start_time))
       => last'.result.success]_vars

\* the reservation just created starts exactly where another reservation of
\* its room ends
CreatedRightAfterAnother ==
    /\ last.op = "create"
    /\ last.result.success
    /\ \E r, o \in reservations :
          /\ r.id = last.result.id
          /\ o.room_id = r.room_id
          /\ o.end_time = r.start_time

StartBeforeOpening(a) ==
    /\ strptime_HM(a.start_time).ok
    /\ 60 * strptime_HM(a.start_time).hour + strptime_HM(a.start_time).minute < 60 * STARTHOUR

EndAfterClosing(a) ==
    /\ strptime_HM(a.end_time).ok
    /\ 60 * strptime_HM(a.end_time).hour + strptime_HM(a.end_time).minute > 60 * ENDHOUR

FieldsPresent(a) ==
    a.room_id # 0 /\ a.date # <<>> /\ a.start_time # <<>> /\ a.end_time # <<>>

TimesWellFormed(a) == strptime_HM(a.start_time).ok /\ strptime_HM(a.end_time).ok

StartNotBeforeEnd(a) ==
    60 * strptime_HM(a.start_time).hour + strptime_HM(a.start_time).minute
    >= 60 * strptime_HM(a.end_time).hour + strptime_HM(a.end_time).minute

\* C6 as stated: a create_reservation request whose start time-of-day is
\* before the opening hour or whose end time-of-day is after the closing
\* hour always fails with the out-of-hours error.
OutOfHoursAlwaysRejected ==
    (last.op = "create" /\ (StartBeforeOpening(last.args) \/ EndAfterClosing(last.args)))
    => Rejected(last.result, ErrHours)

\* C6, amended: a create_reservation request with all four fields present
\* and both times well-formed, whose start time-of-day is before the opening
\* hour or whose end time-of-day is after the closing hour, always fails with
\* the out-of-hours error, whatever is stored.
OutOfHoursRejectedWhenPresentAndWellFormed ==
    (/\ last.op = "create"
     /\ FieldsPresent(last.args)
     /\ TimesWellFormed(last.args)
     /\ (StartBeforeOpening(last.args) \/ EndAfterClosing(last.args)))
    => Rejected(last.result, ErrHours)

\* a request ending after closing was rejected as out of hours while a
\* stored reservation of its room overlaps the interval it asked for
OutOfHoursRejectedDespiteOverlap ==
    /\ last.op = "create"
    /\ Rejected(last.result, ErrHours)
    /\ EndAfterClosing(last.args)
    /\ parse_datetime_jst(last.args.date, last.args.start_time).ok
    /\ parse_datetime_jst(last.args.date, last.args.end_time).ok
    /\ \E r \in reservations :
          /\ r.room_id = last.args.room_id
          /\ DtLt(r.start_time, parse_datetime_jst(last.args.date, last.args.end_time).dt)
          /\ DtLt(parse_datetime_jst(last.args.date, last.args.start_time).dt, r.end_time)

\* C7 as stated: a create_reservation request with well-formed times and
\* start >= end always fails with the ordering error, for every such start
\* and end.
OrderingAlwaysRejected ==
    (last.op = "create" /\ TimesWellFormed(last.args) /\ StartNotBeforeEnd(last.args))
    => Rejected(last.result, ErrOrdering)

\* C7, amended: a create_reservation request with all four fields present,
\* well-formed times, start not before the opening hour, end not after the
\* closing hour, and start >= end always fails with the ordering error.
OrderingRejectedWithinHours ==
    (/\ last.op = "create"
     /\ FieldsPresent(last.args)
     /\ TimesWellFormed(last.args)
     /\ ~StartBeforeOpening(last.args)
     /\ ~EndAfterClosing(last.args)
     /\ StartNotBeforeEnd(last.args))
    => Rejected(last.result, ErrOrdering)

\* a request whose start equals its end, inside business hours, was rejected
\* with the ordering error while the store holds a reservation
EmptyIntervalRejected ==
    /\ last.op = "create"
    /\ Rejected(last.result, ErrOrdering)
    /\ last.args.start_time = last.args.end_time
    /\ reservations # {}

\* C8: validation reports the first failing check in the order missing-field,
\* format, out-of-hours, ordering, and reports a request that passes all four
\* as valid.
ValidationReportsFirstFailingCheck ==
    last.op = "create" =>
        IF ~FieldsPresent(last.args)
        THEN Validation(last.args) = Invalid(ErrMissing) /\ Rejected(last.result, ErrMissing)
        ELSE IF ~TimesWellFormed(last.args)
        THEN Validation(last.args).raised /\ Rejected(last.result, ErrFormat)
        ELSE IF StartBeforeOpening(last.args) \/ EndAfterClosing(last.args)
        THEN Validation(last.args) = Invalid(ErrHours) /\ Rejected(last.result, ErrHours)
        ELSE IF StartNotBeforeEnd(last.args)
        THEN Validation(last.args) = Invalid(ErrOrdering) /\ Rejected(last.result, ErrOrdering)
        ELSE Validation(last.args) = Valid

\* a request that fails the out-of-hours check and the ordering check (and
\* whose date does not parse) got the out-of-hours error
SeveralChecksFailEarliestReported ==
    /\ last.op = "create"
    /\ FieldsPresent(last.args)
    /\ TimesWellFormed(last.args)
    /\ EndAfterClosing(last.args)
    /\ StartNotBeforeEnd(last.args)
    /\ ~parse_datetime_jst(last.args.date, last.args.start_time).ok
    /\ Rejected(last.result, ErrHours)

\* C9: create_reservation with a room_id that is not in the room catalog
\* fails with the not-found error and stores no reservation.
UnknownRoomRejected ==
    (/\ last.op = "create"
     /\ last.args.room_id # 0
     /\ \A room \in rooms : room.id # last.args.room_id
     /\ Validation(last.args) = Valid
     /\ Candidate(last.args).ok)
    => /\ Rejected(last.result, ErrNotFound)
       /\ \A r \in reservations : r.room_id # last.args.room_id

\* C10: in every reachable state, every stored reservation's room_id is the
\* id of a room of the catalog.
ReservationsReferenceRooms ==
    \A r \in reservations : \E room \in rooms : room.id = r.room_id

\* minutes since midnight of a stored instant
TodOf(dt) == dt.hour * 60 + dt.minute

SameCalendarDay(a, b) == a.year = b.year /\ a.month = b.month /\ a.day = b.day

\* C11: every stored reservation has start < end, both instants on one
\* calendar day, a start time of day at or after opening and an end time of
\* day at or before closing.
StoredIntervalsWithinOneBusinessDay ==
    \A r \in reservations :
        /\ DtLt(r.start_time, r.end_time)
        /\ SameCalendarDay(r.start_time, r.end_time)
        /\ TodOf(r.start_time) >= STARTHOUR * 60
        /\ TodOf(r.end_time) <= ENDHOUR * 60

\* a reservation that fills the business day from opening to closing is
\* stored, and the last create, for an end after closing, was turned down
FullDayStoredAndLateEndRejected ==
    /\ \E r \in reservations :
          TodOf(r.start_time) = STARTHOUR * 60 /\ TodOf(r.end_time) = ENDHOUR * 60
    /\ last.op = "create"
    /\ last.args.end_time = T2230
    /\ Rejected(last.result, ErrHours)

\* what a cancel of reservation_id must leave, given the store before it
CancelledExactly(reservation_id) ==
    IF \A r \in reservations : r.id # reservation_id
    THEN /\ Rejected(last'.result, ErrNotFound)
         /\ reservations' = reservations
    ELSE /\ reservations' = {r \in reservations : r.id # reservation_id}
         /\ Cardinality(reservations') = Cardinality(reservations) - 1
         /\ last'.result = [success |-> TRUE, reservation_id |-> reservation_id]

\* C12: cancel_reservation(id) run alone: with no stored reservation of that
\* id it returns the not-found error and leaves the store as it was;
\* otherwise it removes that reservation and no other, and returns success
\* with the same id. The rooms are unchanged either way.
CancelRemovesExactlyThatReservation ==
    [][last'.op = "cancel" => (CancelledExactly(last'.args.reservation_id) /\ rooms' = rooms)]_vars

\* a cancel succeeded and a reservation with another id is still stored
CancelledOneAndAnotherRemains ==
    /\ last.op = "cancel"
    /\ last.result.success
    /\ \E r \in reservations : r.id # last.args.reservation_id

\* C13: when two cancel_reservation calls for the same existing id run
\* concurrently, lookup and delete+commit being separate steps, exactly one
\* returns success and the other the not-found error, and neither returns a
\* storage or server error. The id is that of the reservation the last
\* create made.
ConcurrentCancelsOneSuccessOneNotFound ==
    \A p, q \in Procs :
        (/\ p # q
         /\ proc[p].pc = "done" /\ proc[q].pc = "done"
         /\ last.result.success
         /\ proc[p].reservation_id = last.result.id
         /\ proc[q].reservation_id = last.result.id)
        => \/ Succeeded(p) /\ Rejected(proc[q].result, ErrNotFound)
           \/ Succeeded(q) /\ Rejected(proc[p].result, ErrNotFound)

\* the start an availability query asks for
AskedStart(a) == parse_datetime_jst(a.date, a.start_time)

FindAccepted == last.op = "find_available_rooms" /\ ~last.result.raised

\* the ids of the catalog rooms with no stored reservation r such that
\* r.start < e and r.end > s
FreeRoomIds(s, e) ==
    {room.id : room \in {x \in rooms :
        \A r \in reservations :
            r.room_id = x.id => (DtKey(r.start_time) >= DtKey(e) \/ DtKey(r.end_time) <= DtKey(s))}}

ExactlyTheFreeInIdOrder(found, s, duration_minutes) ==
    /\ \A i, j \in DOMAIN found : i < j => found[i].id < found[j].id
    /\ \A i \in DOMAIN found :
          \E room \in rooms : room.id = found[i].id /\ room.name = found[i].name
    /\ {found[i].id : i \in DOMAIN found} = FreeRoomIds(s, PlusMinutes(s, duration_minutes))

\* C14: an accepted find_available_rooms(date, start, duration) returns
\* exactly the catalog rooms that have no stored reservation r with
\* r.start < start + duration and r.end > start, each once, in ascending
\* order of room id.
AvailableRoomsAreExactlyTheFree ==
    FindAccepted =>
        ExactlyTheFreeInIdOrder(last.result.rooms, AskedStart(last.args).dt,
                                last.args.duration_minutes)

\* an accepted query returned one of the two catalog rooms, and that room has
\* a reservation, which the asked interval does not overlap
OneRoomFreeBesideItsOwnReservation ==
    /\ FindAccepted
    /\ Cardinality(rooms) = 2
    /\ Len(last.result.rooms) = 1
    /\ \E r \in reservations : r.room_id = last.result.rooms[1].id

FindRejected(e) == last.result.raised /\ last.result.error = e

\* the asked interval is not within the business hours of the asked day
LeavesBusinessHours(s, duration_minutes) ==
    \/ TodOf(s) < STARTHOUR * 60
    \/ TodOf(s) + duration_minutes > ENDHOUR * 60

\* C15: find_available_rooms fails with the duration error when
\* duration_minutes <= 0, and with the out-of-hours error whenever the
\* interval [start, start + duration) is not contained in the business hours
\* of the requested day, an end on a later calendar day included.
AvailabilityRejectsBadDurationAndHours ==
    last.op = "find_available_rooms" =>
        /\ last.args.duration_minutes <= 0 => FindRejected(ErrDuration)
        /\ (/\ last.args.duration_minutes > 0
            /\ AskedStart(last.args).ok
            /\ LeavesBusinessHours(AskedStart(last.args).dt, last.args.duration_minutes))
           => FindRejected(ErrFindHours)

QueryOps ==
    {"find_available_rooms", "get_reservations_by_date", "get_reservations_by_username"}

\* C16: find_available_rooms, get_reservations_by_date and
\* get_reservations_by_username never change the stored reservations or the
\* rooms.
QueriesChangeNothing ==
    [][last'.op \in QueryOps => (reservations' = reservations /\ rooms' = rooms)]_vars

\* a by-user query has returned two reservations, and they are still stored
QueryAnsweredFromBookedStore ==
    /\ last.op = "get_reservations_by_username"
    /\ last.result.success
    /\ Len(last.result.reservations) >= 2
    /\ Cardinality(reservations) >= 2

StoredWithId(id) == CHOOSE r \in reservations : r.id = id

StartsOnDay(r, day) ==
    r.start_time.year = day.year /\ r.start_time.month = day.month /\ r.start_time.day = day.day

\* a comes no later than b in the order by start, then by room
ByStartThenRoom(a, b) ==
    \/ DtLt(a.start_time, b.start_time)
    \/ DtKey(a.start_time) = DtKey(b.start_time) /\ a.room_id <= b.room_id

ListedIds(entries) == {entries[i].id : i \in DOMAIN entries}

ExactlyThoseOfDayInOrder(entries, day) ==
    /\ ListedIds(entries) = {r.id : r \in {x \in reservations : StartsOnDay(x, day)}}
    /\ \A i, j \in DOMAIN entries :
          i < j => ByStartThenRoom(StoredWithId(entries[i].id), StoredWithId(entries[j].id))

\* C17: get_reservations_by_date(date) returns exactly the stored
\* reservations, of all rooms, whose start is in [date 00:00, date + 1 day
\* 00:00), in ascending order of start and, for equal starts, of room.
ListOfDayExactAndOrdered ==
    (last.op = "get_reservations_by_date" /\ last.result.success) =>
        ExactlyThoseOfDayInOrder(last.result.reservations,
                                 parse_datetime_jst(last.args.date, T0000).dt)

ExactlyThoseOfUserInOrder(entries, user_name) ==
    /\ ListedIds(entries) = {r.id : r \in {x \in reservations : x.user_name = user_name}}
    /\ \A i, j \in DOMAIN entries :
          i < j => DtKey(StoredWithId(entries[i].id).start_time)
                     <= DtKey(StoredWithId(entries[j].id).start_time)

\* C19: the by-requester query returns exactly the stored reservations of
\* the given requester in ascending order of start; called with a date as
\* well, it succeeds and returns only those of that day.
ByRequesterExactOrderedAndByDate ==
    /\ last.op = "get_reservations_by_username" =>
          /\ last.result.success
          /\ ExactlyThoseOfUserInOrder(last.result.reservations, last.args.user_name)
    /\ (last.op = "_call_get_my_reservations_api" /\ last.args.date # <<>>) =>
          /\ last.result.success
          /\ \A i \in DOMAIN last.result.reservations :
                last.result.reservations[i].date = last.args.date

CreatedBy(r) == last'.op = "create" /\ last'.result.success /\ last'.result.id = r.id

CancelledBy(r) ==
    last'.op = "cancel" /\ last'.result.success /\ last'.result.reservation_id = r.id

\* init_db deleted the room of r in this step
RoomDeletedBy(r) ==
    /\ last'.op = "init_db"
    /\ \E room \in rooms : room.id = r.room_id
    /\ \A room \in rooms' : room.id # r.room_id

\* C20, as claimed: a reservation comes into the store only by a successful
\* create and leaves it only by a successful cancel; no other operation adds
\* or removes one, and while stored its room, requester, start and end never
\* change.
LifecycleCreateAndCancelOnly ==
    [][/\ \A r \in reservations' \ reservations : CreatedBy(r)
       /\ \A r \in reservations \ reservations' : CancelledBy(r)]_vars

\* C20, amended: a reservation comes into the store only by a successful
\* create, and leaves it only by a successful cancel of its id or by an
\* init_db that deletes its room; while stored its room, requester, start
\* and end never change.
LifecycleCreateCancelAndRoomDeletion ==
    [][/\ \A r \in reservations' \ reservations : CreatedBy(r)
       /\ \A r \in reservations \ reservations' : CancelledBy(r) \/ RoomDeletedBy(r)]_vars

\* init_db has deleted room 2 and a reservation of room 1 is still stored
RoomDeletedAndOtherReservationKept ==
    /\ last.op = "init_db"
    /\ \A room \in rooms : room.id # 2
    /\ \E r \in reservations : r.room_id = 1

\* the ids that the state shows to have been assigned: those of the stored
\* reservations and the one the last call created or cancelled
KnownAssignedIds ==
    {r.id : r \in reservations}
    \cup (IF last.op = "create" /\ last.result.success THEN {last.result.id} ELSE {})
    \cup (IF last.op = "cancel" /\ last.result.success THEN {last.result.reservation_id} ELSE {})

\* C21: across any sequence of creates and cancels, each successfully
\* created reservation receives an id strictly greater than every id
\* assigned before it, so an id freed by a cancel is never assigned again.
IdsMonotonic ==
    [][(last'.op = "create" /\ last'.result.success /\ reservations' # reservations)
        => \A id \in KnownAssignedIds : last'.result.id > id]_vars

\* what the request of p returns when it is the only request, from the
\* constructed state
AloneResult(p) ==
    create_reservation({}, rooms, proc[p].req.room_id, proc[p].user_name,
                       proc[p].req.date, proc[p].req.start_time, proc[p].req.end_time).result

\* success or the same error; the id of a created reservation is left out,
\* as it counts the reservations created before
SameOutcome(a, b) ==
    /\ a.success = b.success
    /\ a.success => a.room_name = b.room_name
    /\ ~a.success => a.error = b.error

\* the request of p has a step to take
NotWaiting(p) == ENABLED (CreateCheck(p) \/ CreateInsert(p) \/ CreateReturn(p))

OnDifferentRooms(p, q) ==
    proc[q].pc = "idle" \/ proc[q].req.room_id # proc[p].req.room_id

ResultFromEmptyStore(a) ==
    create_reservation({}, {}, a.room_id, a.user_name, a.date, a.start_time, a.end_time).result

\* C23: a create_reservation that returns an error (missing field, format,
\* out-of-hours, ordering, conflict) leaves the stored reservations and the
\* rooms exactly as they were; and a request the validation turns down gets
\* the error it gets whatever is stored, the validation not reading the
\* store.
FailedCreateChangesNothing ==
    [][(last'.op = "create" /\ ~last'.result.success) =>
           /\ reservations' = reservations
           /\ rooms' = rooms
           /\ ~Validation(last'.args).valid => last'.result = ResultFromEmptyStore(last'.args)]_vars

\* a create was turned down for a conflict with the one stored reservation
ConflictRefusedBesideOneStored ==
    /\ last.op = "create"
    /\ Rejected(last.result, ErrConflict)
    /\ Cardinality(reservations) = 1

ReturnedErrors ==
    {ErrMissing, ErrHours, ErrOrdering, ErrFormat, ErrConflict, ErrNotFound, ErrServer,
     ErrDateFormat}

\* a returned result: success with data, or no success with an error; not
\* an exception that left the function
IsResultValue(res) ==
    /\ "raised" \notin DOMAIN res
    /\ "success" \in DOMAIN res
    /\ res.success \in BOOLEAN
    /\ res.success => DOMAIN res \cap {"id", "reservation_id", "reservations"} # {}
    /\ ~res.success => ("error" \in DOMAIN res /\ res.error \in ReturnedErrors)

\* C24: create_reservation, cancel_reservation and get_reservations_by_date
\* never abort: for every input, malformed dates and times included, they
\* return a result carrying success=true with data or success=false with an
\* error, and validation and conflict failures are reported that way.
NeverAborts ==
    last.op \in {"create", "cancel", "get_reservations_by_date"} =>
        /\ IsResultValue(last.result)
        /\ (last.op = "create" /\ ~Validation(last.args).valid) => ~last.result.success

\* the list of a day that no month has was asked for while a reservation is
\* stored, and the format error came back
MalformedDayListRefused ==
    /\ last.op = "get_reservations_by_date"
    /\ last.args.date = Feb30
    /\ Rejected(last.result, ErrDateFormat)
    /\ reservations # {}

InFlight(p) == proc[p].pc \notin {"idle", "done"}

\* C25: no operation blocks indefinitely: under fair scheduling, every
\* started create, cancel, list or availability request eventually returns,
\* with success or an error, whatever other requests run concurrently.
EveryStartedRequestReturns ==
    \A p \in Procs : InFlight(p) ~> proc[p].pc = "done"

\* a create and the list of its day, running side by side, have both
\* returned, and the list shows the reservation the create stored
ListedWhatTheOtherCreated ==
    \E p, q \in Procs :
        /\ proc[p].pc = "done" /\ proc[q].pc = "done"
        /\ "req" \in DOMAIN proc[p] /\ proc[p].result.success
        /\ "date" \in DOMAIN proc[q] /\ proc[q].result.success
        /\ \E i \in DOMAIN proc[q].result.reservations :
              proc[q].result.reservations[i].id = proc[p].result.id

\* a text of the shape YYYY-MM-DD
IsYmdText(s) ==
    /\ Len(s) = 10
    /\ \A i \in {1, 2, 3, 4, 6, 7, 9, 10} : s[i] \in Digits
    /\ s[5] = "-" /\ s[8] = "-"

\* a text of the shape HH:MM
IsHHMMText(s) ==
    /\ Len(s) = 5
    /\ \A i \in {1, 2, 4, 5} : s[i] \in Digits
    /\ s[3] = ":"

\* the arguments are a date of the calendar and a time of the day, written
\* as YYYY-MM-DD and HH:MM
ValidDateAndTime(args) ==
    /\ IsYmdText(args.date)
    /\ IsHHMMText(args.time)
    /\ parse_datetime_jst(args.date, args.time).ok

\* C26: the round trip of parsing and formatting: for every valid date d and
\* well-formed HH:MM time t, format_jst_time(parse_datetime_jst(d, t)) is t
\* and format_jst_date(parse_datetime_jst(d, t)) is d.
RoundTripOfParseAndFormat ==
    (last.op = "parse_and_format" /\ ValidDateAndTime(last.args))
        => /\ ~last.result.raised
           /\ last.result.time = last.args.time
           /\ last.result.date = last.args.date

\* the fields of an instant, most significant first
InstantFields(t) == <<t.year, t.month, t.day, t.hour, t.minute, t.second, t.microsecond>>

\* instant a is before instant b
InstantLt(a, b) ==
    \E i \in 1 .. 7 :
        /\ InstantFields(a)[i] < InstantFields(b)[i]
        /\ \A j \in 1 .. (i - 1) : InstantFields(a)[j] = InstantFields(b)[j]

InstantLe(a, b) == a = b \/ InstantLt(a, b)

OnBoundary(t) == t.minute \in {0, 30} /\ t.second = 0 /\ t.microsecond = 0

\* t + 30 minutes as an instant of the calendar, whatever its year
HalfHourAfter(t) == PlusMinutes(t, 30)

\* next is the 30-minute boundary that follows t
IsNextSlot(t, next) ==
    /\ ~next.raised
    /\ next.dt = HalfHourAfter(round_down_to_30min(t))
    /\ OnBoundary(next.dt)
    /\ InstantLt(t, next.dt)
    /\ InstantLe(next.dt, HalfHourAfter(t))
    /\ (OnBoundary(t) => next.dt = HalfHourAfter(t))

\* the original statement of C27: for every instant t, get_next_30min_slot(t)
\* is round_down_to_30min(t) plus 30 minutes, on a 30-minute boundary,
\* strictly later than t and at most 30 minutes after t.
NextSlotOfEveryInstant ==
    last.op = "get_next_30min_slot" => IsNextSlot(last.result.dt, last.result.next)

\* the last boundary that datetime has a successor boundary for
LastSlotStart(t) == InstantLt(t, [t EXCEPT !.year = 9999, !.month = 12, !.day = 31,
                                           !.hour = 23, !.minute = 30,
                                           !.second = 0, !.microsecond = 0])

\* C27: for every instant t before 9999-12-31 23:30, get_next_30min_slot(t)
\* is round_down_to_30min(t) plus 30 minutes: on a 30-minute boundary,
\* strictly later than t, at most 30 minutes after t and exactly 30 minutes
\* after a t that is on a boundary; from 9999-12-31 23:30 on it raises
\* OverflowError.
NextSlotBeforeTheLastHalfHour ==
    last.op = "get_next_30min_slot"
        => IF LastSlotStart(last.result.dt)
           THEN IsNextSlot(last.result.dt, last.result.next)
           ELSE last.result.next = Raise(ErrOverflow)

\* the next slot of the last microsecond of a leap day is the midnight that
\* begins the first of March
NextSlotAcrossMidnightOfLeapDay ==
    /\ last.op = "get_next_30min_slot"
    /\ last.args.date = Y2024Feb29
    /\ last.result.dt.hour = 23 /\ last.result.dt.minute = 59
    /\ last.result.dt.microsecond = 999999
    /\ ~last.result.next.raised
    /\ last.result.next.dt.month = 3 /\ last.result.next.dt.day = 1
    /\ last.result.next.dt.hour = 0 /\ last.result.next.dt.minute = 0

\* C28: round_down_to_30min(t) is the latest instant at or before t whose
\* minute is 0 or 30 and whose second and microsecond are 0; it keeps the
\* date and the hour of t, and rounding it again changes nothing.
RoundDownIsLatestBoundary ==
    last.op = "round_down_to_30min"
        => /\ OnBoundary(last.result.rounded)
           /\ InstantLe(last.result.rounded, last.result.dt)
           /\ InstantLt(last.result.dt, HalfHourAfter(last.result.rounded))
           /\ \A f \in {"year", "month", "day", "hour", "tzinfo"} :
                 last.result.rounded[f] = last.result.dt[f]
           /\ round_down_to_30min(last.result.rounded) = last.result.rounded

\* an instant one microsecond before a boundary is rounded down by almost
\* half an hour
RoundedDownFromJustBeforeABoundary ==
    /\ last.op = "round_down_to_30min"
    /\ last.result.dt.minute = 59 /\ last.result.dt.second = 59
    /\ last.result.dt.microsecond = 999999
    /\ last.result.rounded.minute = 30 /\ last.result.rounded.second = 0
    /\ last.result.rounded.microsecond = 0

\* after the cancel that left c, the create for the room and the interval of
\* the cancelled reservation r succeeds
RecreatedAfter(c, r) ==
    c.result.success
        => create_reservation(c.store, rooms, r.room_id, r.user_name,
                              format_jst_date(convert_to_jst(r.start_time)),
                              format_jst_time(convert_to_jst(r.start_time)),
                              format_jst_time(convert_to_jst(r.end_time))).result.success

\* C29: cancelling and then creating again frees the slot: after the
\* successful cancel of a reservation of room r over [s, e), a create for
\* room r over the same [s, e), with no other request in between, succeeds.
\* It is stated of the states in which no request is being served.
CancelThenRecreateSucceeds ==
    (\A p \in Procs : ~InFlight(p))
        => \A r \in reservations : RecreatedAfter(cancel_reservation(reservations, r.id), r)

\* [s, e) lies within the business hours of one day
WithinOneBusinessDay(s, e) ==
    /\ s.year = e.year /\ s.month = e.month /\ s.day = e.day
    /\ TimeOfDay(s.hour, s.minute) >= TimeOfDay(STARTHOUR, 0)
    /\ TimeOfDay(e.hour, e.minute) <= TimeOfDay(ENDHOUR, 0)
    /\ DtLt(s, e)

\* the catalog rooms found are those that a create of the asked date, start
\* and end e would now be accepted for
CreateAgrees(found, q, e) ==
    \A room \in rooms :
        (\E i \in DOMAIN found : found[i].id = room.id)
            <=> create_reservation(reservations, rooms, room.id, "guest", q.date,
                                   q.start_time, format_jst_time(e)).result.success

AgreesWhenWithinOneDay(found, q, s, e) ==
    WithinOneBusinessDay(s, e) => CreateAgrees(found, q, e)

\* C30: availability and create agree: for an interval within the business
\* hours of one day, and with no write in between, a room is in the result of
\* find_available_rooms(date, start, duration) exactly when
\* create_reservation for that room, date, start and start + duration
\* succeeds.
AvailabilityAgreesWithCreate ==
    FindAccepted =>
        AgreesWhenWithinOneDay(last.result.rooms, last.args, AskedStart(last.args).dt,
                               PlusMinutes(AskedStart(last.args).dt,
                                           last.args.duration_minutes))

\* the whole business day was asked for: one catalog room is found, and a
\* create for the other would be refused
WholeDayFreeInOneRoomOnly ==
    /\ FindAccepted
    /\ last.args.duration_minutes = 900
    /\ last.args.start_time = T0700
    /\ Cardinality(rooms) = 2
    /\ Len(last.result.rooms) = 1
    /\ \E room \in rooms :
          /\ room.id # last.result.rooms[1].id
          /\ ~create_reservation(reservations, rooms, room.id, "guest", last.args.date,
                                 T0700, T2200).result.success

\* the indexes of the entries of a list that have the id
EntriesWithId(entries, id) == {i \in DOMAIN entries : entries[i].id = id}

\* the list has exactly one entry of the id, and it shows what args gave
ListsCreated(listed, id, args) ==
    /\ listed.success
    /\ Cardinality(EntriesWithId(listed.reservations, id)) = 1
    /\ \A i \in EntriesWithId(listed.reservations, id) :
          /\ listed.reservations[i].room_id = args.room_id
          /\ listed.reservations[i].user_name = args.user_name
          /\ listed.reservations[i].start_time = args.start_time
          /\ listed.reservations[i].end_time = args.end_time
          /\ listed.reservations[i].date = args.date

\* the minutes from the start to the end of the stored reservation r
MinutesOf(r) ==
    TimeOfDay(r.end_time.hour, r.end_time.minute)
        - TimeOfDay(r.start_time.hour, r.start_time.minute)

\* the room of r is found free over the interval of r exactly when no
\* reservation of store overlaps it there
FreedUnlessOthers(found, store, cat, r) ==
    /\ ~found.raised
    /\ \A room \in cat :
          room.id = r.room_id =>
              ((\E i \in DOMAIN found.rooms : found.rooms[i].id = room.id)
                  <=> ~\E t \in store : /\ t.room_id = r.room_id
                                        /\ DtLt(t.start_time, r.end_time)
                                        /\ DtLt(r.start_time, t.end_time))

\* no list and no availability result of store shows the cancelled r
NotReflected(store, cat, r) ==
    /\ \A date \in DayInputs :
          get_reservations_by_date(store, cat, date).success
              => EntriesWithId(get_reservations_by_date(store, cat, date).reservations, r.id) = {}
    /\ get_reservations_by_username(store, cat, r.user_name).success
          => EntriesWithId(get_reservations_by_username(store, cat, r.user_name).reservations,
                           r.id) = {}
    /\ FreedUnlessOthers(
           find_available_rooms_by_start_datetime_and_duration(
               store, cat, format_jst_date(convert_to_jst(r.start_time)),
               format_jst_time(convert_to_jst(r.start_time)), MinutesOf(r)),
           store, cat, r)

ReadsItsWrite ==
    /\ (last'.op = "create" /\ last'.result.success)
          => ListsCreated(get_reservations_by_date(reservations', rooms', last'.args.date),
                          last'.result.id, last'.args)
    /\ (last'.op = "cancel" /\ last'.result.success)
          => \A r \in reservations \ reservations' : NotReflected(reservations', rooms', r)

\* C31: read your writes: after create_reservation returns success with id
\* i, get_reservations_by_date of its date has exactly one entry with id i,
\* showing the room_id, user_name, start_time, end_time and date given to
\* create; after cancel_reservation(i) succeeds, no list and no availability
\* result reflects reservation i.
ReadYourWrites == [][ReadsItsWrite]_vars

\* the minute of the day that a returned HH:MM text names
MinuteOfText(text) == TimeOfDay(strptime_HM(text).hour, strptime_HM(text).minute)

\* S and E, the minutes of the day of the returned start and end, are those
\* of start = round_down_to_30min(now) and of an end duration + 30 minutes
\* after it; start <= now and end >= now + duration
SpanForNow(now, duration, S, E) ==
    /\ S = MinuteOfText(format_jst_time(round_down_to_30min(now)))
    /\ S <= TimeOfDay(now.hour, now.minute)
    /\ S + 30 > TimeOfDay(now.hour, now.minute)
    /\ InstantLe(round_down_to_30min(now), now)
    /\ (E + 1440 - S) % 1440 = (duration + 30) % 1440
    /\ InstantLe(PlusMinutes(now, duration),
                 PlusMinutes(round_down_to_30min(now), duration + 30))

ReturnedSpanForNow(now, duration, times) ==
    /\ ~times.raised
    /\ SpanForNow(now, duration, MinuteOfText(times.start_time), MinuteOfText(times.end_time))

EndTextLater(times) == MinuteOfText(times.end_time) > MinuteOfText(times.start_time)

EndsOnTheDay(now, duration) ==
    (TimeOfDay(now.hour, now.minute) \div 30) * 30 + 30 + duration < 1440

OnLastDay(now) == now.year = 9999 /\ now.month = 12 /\ now.day = 31

OwnedCancelOutcome(before, after, id, user_name, result) ==
    IF ~\E r \in before : r.id = id
    THEN result = Failure(ErrNotFound) /\ after = before
    ELSE IF \E r \in before : r.id = id /\ r.user_name = user_name
         THEN /\ result.success
              /\ after = {r \in before : r.id # id}
         ELSE /\ ~result.success
              /\ result.error # ErrNotFound
              /\ after = before

OwnedCancelStep ==
    last'.op = "services_cancel"
        => OwnedCancelOutcome(reservations, reservations', last'.args.reservation_id,
                              last'.args.user_name, last'.result)

\* C33: in the variant that checks ownership, cancel_reservation(id, user)
\* deletes the reservation only when the stored requester equals user; when
\* the id exists but the requester differs it returns an error and the
\* store is unchanged; when the id does not exist it returns the not-found
\* error whatever the user.
CancelOnlyByTheRequester == [][OwnedCancelStep]_vars

\* a cancel by another user was refused beside the reservation it asked
\* for, which is still stored
CancelByAnotherUserRefused ==
    /\ last.op = "services_cancel"
    /\ last.result = Failure(ErrNotOwner)
    /\ \E r \in reservations :
          r.id = last.args.reservation_id /\ r.user_name # last.args.user_name

NamesOf(cfg) == {cfg[i].name : i \in DOMAIN cfg}

\* init_db with cfg took the catalog and the store from before to after
CatalogSynced(cfg, catBefore, storeBefore, catAfter, storeAfter) ==
    /\ {room.name : room \in catAfter} = NamesOf(cfg)
    /\ \A room \in catBefore :
          IF room.name \in NamesOf(cfg)
          THEN /\ room \in catAfter
               /\ {r \in storeAfter : r.room_id = room.id}
                     = {r \in storeBefore : r.room_id = room.id}
          ELSE /\ room \notin catAfter
               /\ ~\E r \in storeAfter : r.room_id = room.id
    /\ storeAfter \subseteq storeBefore
    /\ init_db(catAfter, storeAfter, cfg) = [rooms |-> catAfter, reservations |-> storeAfter]

CatalogSyncStep ==
    last'.op = "init_db"
        => CatalogSynced(last'.args.cfg, rooms, reservations, rooms', reservations')

\* C34: catalog sync: after init_db the set of room names in the store is
\* the set of names of the configuration; the rooms that were already
\* present keep their id and their reservations; every reservation of a
\* removed room is deleted with it; and running init_db again with the same
\* configuration changes nothing.
CatalogSyncMatchesConfiguration == [][CatalogSyncStep]_vars

\* init_db has removed Room A and added Room C, and the reservation of the
\* room that stayed is still stored
RoomReplacedAndReservationOfKeptRoomStored ==
    /\ last.op = "init_db"
    /\ last.args.cfg = <<RoomB, RoomC>>
    /\ {room.name : room \in rooms} = {"Room B", "Room C"}
    /\ \E room \in rooms : room.name = "Room B" /\ \E r \in reservations : r.room_id = room.id
    /\ ~\E r \in reservations : r.room_id = 1

\* C35: the create endpoint maps each kind of error to a stable status: it
\* answers 409 only when the service refused the request because of an
\* overlapping reservation, and 400 for the missing-field, format,
\* out-of-hours and ordering failures.
CreateStatusByErrorKind ==
    (last.op = "post_reservations" /\ ~last.result.success)
        => /\ last.status = 409 => last.result.error = ErrConflict
           /\ last.result.error \in {ErrMissing, ErrFormat, ErrHours, ErrOrdering}
                 => last.status = 400

\* the stored messages are pairs: a user's message, then an answer to it
PairsOfMessageAndAnswer(h) ==
    /\ Len(h) % 2 = 0
    /\ \A i \in DOMAIN h :
          IF i % 2 = 1
          THEN h[i].role = "user"
          ELSE /\ h[i].role = "assistant"
               /\ \E reply \in Completions :
                     /\ reply.kind # "raised"
                     /\ h[i].content = ResponseTo(h[i - 1].content, reply)

\* C36: for a chat session, after any sequence of process_chat_message
\* calls the stored history is a sequence of pairs of a user's message and
\* the assistant's answer, in the order the messages were processed: every
\* stored user's message is immediately followed by its answer, also when
\* the model asks for a tool call and when two messages of one session are
\* processed concurrently.  It is stated of the states in which no message
\* is being processed.
HistoryIsPairs ==
    (\A p \in Procs : proc[p].pc \in {"idle", "done"})
        => \A s \in Sessions : PairsOfMessageAndAnswer(chat_history[s])
====
